---- MODULE Spec2Model ----
(***************************************************************************)
(* Lifecycle of one tool@version of remotetools: Install / Uninstall /     *)
(* Pause of pkg/tools, the per-folder mutex registry, the active-task      *)
(* registry, the download engine and the metadata sidecar.                 *)
(*                                                                         *)
(* One key tool@version is modelled.  The writable version folder, the     *)
(* temp file inside it, the version folder of one read-only root, the      *)
(* sidecar and the copy under the tmp-exec root are the disk state.  Sizes *)
(* are counted in chunks: one body Read transfers one chunk.  All mirrors  *)
(* of the key serve the same file name, so they share one temp file.       *)
(* writeMetadataFile (temp + rename) is one step.                          *)
(***************************************************************************)
EXTENDS Integers, Sequences, FiniteSets, TLC

\* ------------------------------------------------------------------ bounds
FileSize == 3
MaxOps == 3

\* --------------------------------------------------------------- processes
Installers == {"i1", "i2"}
Uninstallers == {"u1"}
Procs == Installers \cup Uninstallers
Free == "free"
\* a nil *ToolMetadata / a missing sidecar file; a present one is <<dp>>
Nil == <<>>
None == <<>>

\* folder paths used as keys of toolLocks
KeyW == "W"
KeyRO == "RO"
KeyEmpty == ""
\* the writable version folder as filepath.Join spells it, where that differs
\* from the path that generateToolFolderPath builds
KeyJoin == "Wj"
LockKeys == {KeyW, KeyRO, KeyEmpty, KeyJoin}

\* ------------------------------------------------------------------ mirrors
\* good:    HEAD reports Content-Length, GET honours Range
\* nolen:   HEAD fails or has no Content-Length, GET honours Range
\* norange: HEAD reports Content-Length, GET ignores Range and answers 200
\* http404: HEAD and GET answer 404
\* corrupt: as good, but the body is not the artifact (an archive that does not extract)
\* reset:   as good, but the connection breaks before the end of the body
\* chunked: as nolen, and the GET response carries no Content-Length either
\* badurl:  a string that url.Parse rejects: no request can be built from it
\* "":      an empty string in the URL list
Profiles == {"good", "nolen", "norange", "http404", "corrupt", "reset", "chunked",
             "badurl", ""}

HeadSize(m) == IF m \in {"good", "norange", "corrupt", "reset"} THEN FileSize ELSE 0

\* status of the GET response; rng = 0 means no Range header
GetStatus(m, rng) ==
  CASE m = "http404" -> 404
    [] m = "norange" -> 200
    [] OTHER -> IF rng = 0 THEN 200 ELSE IF rng >= FileSize THEN 416 ELSE 206

\* number of body chunks of the GET response
BodyLen(status, rng) == IF status = 206 THEN FileSize - rng ELSE FileSize

\* resp.ContentLength: -1 when the response has no Content-Length
ContentLength(m, status, rng) == IF m = "chunked" THEN -1 ELSE BodyLen(status, rng)

\* ------------------------------------------------------------------ config
\* entry: where the relative entry path points
\*   payload  : a file of the extracted archive
\*   tempname : the downloaded raw file itself (file name = pathToEntry)
\*   folder   : pathToEntry is empty, the entry path is the version folder
\*   absent   : nothing the download produces
\* execEnv: what the exec probes of this run find
\*   ok               : the storage folder allows execution
\*   noexec_notmp     : it does not, and no tmp-exec root is configured
\*   noexec_tmp_ok    : it does not, the tmp-exec root does
\*   noexec_tmp_bad   : neither the storage folder nor the tmp-exec root does
\*   noexec_tmp_cperr : the tmp-exec root does, copying the tree to it fails
\*   noexec_tmp_lost  : the tmp-exec root does, the copy does not any more
ExecEnvs == {"ok", "noexec_notmp", "noexec_tmp_ok", "noexec_tmp_bad",
             "noexec_tmp_cperr", "noexec_tmp_lost"}

Layouts == {[isArchive |-> TRUE, entry |-> "payload"],
            [isArchive |-> TRUE, entry |-> "absent"],
            [isArchive |-> FALSE, entry |-> "tempname"]}

Config(x, l, e, u, r) ==
  [isExecutable |-> x, isArchive |-> l.isArchive, entry |-> l.entry,
   execEnv |-> e, urls |-> u, ro |-> r]

PlainLayout == [isArchive |-> TRUE, entry |-> "payload"]

\* every layout, executable or not, installed in the read-only root or not,
\* on one good mirror; and the plain archive on other mounts and mirror lists
Configs ==
  {Config(x, l, "ok", <<"good">>, r) : x \in BOOLEAN, l \in Layouts, r \in BOOLEAN}
  \cup {Config(TRUE, PlainLayout, e, <<"good">>, r) :
          e \in {"noexec_notmp", "noexec_tmp_ok"}, r \in BOOLEAN}
  \cup {Config(TRUE, PlainLayout, "ok", u, FALSE) :
          u \in {<<"nolen">>, <<"http404", "good">>}}

\* the plain archive on mirror lists with a mirror that fails in mid-body,
\* serves a bad archive, or sends no Content-Length at all
MirrorConfigs ==
  {Config(TRUE, PlainLayout, "ok", u, FALSE) :
     u \in {<<"corrupt", "good">>, <<"reset", "good">>, <<"chunked">>}}

\* --------------------------------------------------------- DownloadProcess
ZeroDP == [idx |-> 0, fileSize |-> 0, status |-> "", attemptIndex |-> 0,
           totalAttempts |-> 0, cur |-> 0, failed |-> <<>>, all |-> 0]

Ev(st, tot, dl, att, n, failed, all) ==
  [status |-> st, total |-> tot, downloaded |-> dl, attempt |-> att,
   attempts |-> n, failed |-> failed, all |-> all]

EvPlain(st) == Ev(st, 0, 0, 0, 0, <<>>, 0)

ForcePersist == {"trying", "extracting", "paused", "failed", "completed", "disabled"}

UpdateDPKeeps(prev, ev) == prev

\* updateMetadataFromProgress: the new DownloadProcess
UpdateDP(prev, ev) ==
  LET common == [prev EXCEPT !.status = ev.status, !.attemptIndex = ev.attempt,
                             !.totalAttempts = ev.attempts, !.cur = ev.attempt,
                             !.failed = ev.failed, !.all = ev.all]
      sized == IF ev.total > 0 THEN [common EXCEPT !.fileSize = ev.total] ELSE common
      indexed == IF ev.attempt - 1 >= 0 THEN [sized EXCEPT !.idx = ev.attempt - 1] ELSE sized
  IN CASE ev.status = "trying" ->
            [idx |-> IF ev.attempt - 1 < 0 THEN 0 ELSE ev.attempt - 1,
             fileSize |-> IF ev.total > 0 THEN ev.total ELSE 0,
             status |-> ev.status, attemptIndex |-> ev.attempt,
             totalAttempts |-> ev.attempts, cur |-> ev.attempt,
             failed |-> ev.failed, all |-> ev.all]
       [] ev.status \in {"downloading", "paused", "failed"} -> indexed
       [] ev.status = "extracting" -> sized
       [] ev.status = "completed" -> ZeroDP
       [] OTHER -> common

\* ensureMetadataLocked: <<in-memory record, sidecar on disk>>
EnsureMeta(md, sc) ==
  IF md # Nil THEN <<md, sc>>
  ELSE IF sc # None THEN <<sc, sc>>
  ELSE <<(<<ZeroDP>>), (<<ZeroDP>>)>>

\* updateMetadataFromProgress: <<in-memory record, sidecar on disk>> after ev
MetaAfterEmit(md, sc, ev) ==
  LET e == EnsureMeta(md, sc)
      cur == <<UpdateDP(e[1][1], ev)>>
  IN <<cur, IF cur # e[1] \/ ev.status \in ForcePersist THEN cur ELSE e[2]>>

\* resetDownloadProcess(true)
MetaAfterReset(md, sc) == <<(<<ZeroDP>>), (<<ZeroDP>>)>>

\* --------------------------------------------------------------- web server
StatusStopped == "stopped"
StatusStarting == "starting"
StatusRunning == "running"
StatusStopping == "stopping"

\* ----------------------------------------------------------- tool instances
\* the goroutines that call GetToolWithVersion for the key
Callers == {"a", "b", "c"}

\* a nil Tool; the handles NewDownloadTool makes are numbered from 1
NoTool == 0

ZeroGet == [pc |-> "idle", t |-> NoTool, tool |-> NoTool, calls |-> 0]

\* ------------------------------------------------------------------- state
\* the versions two callers install and uninstall at the same time
KeyVersions == {"1.0", "2.0"}

KeyProcs == {"k1", "k2"}

ZeroKeyOp == [pc |-> "idle", kind |-> "none", ver |-> "1.0", mu |-> "", ret |-> "none",
              blocker |-> "none"]

\* the goroutines that call broadcastProgress
Broadcasters == {"b1", "b2"}

ZeroBc == [pc |-> "idle", todo |-> {}, msg |-> 0]

VARIABLES
  cfg,          \* the ToolConfig and the environment of this run
  folder,       \* the writable version folder exists
  tmpFile,      \* size of the temp file in the writable folder, -1: no file
  tmpBad,       \* the temp file holds bytes that are not those of the artifact
  extracted,    \* the writable folder holds the extracted archive tree
  staging,      \* the .tmp_<version> extraction folder exists next to the version folder
  roEntry,      \* the read-only root holds the version with its entry file
  roModified,   \* something was renamed, deleted or written under the read-only root
  tmpCopy,      \* the version under the tmp-exec root: "none", "folder" (empty), "copy"
  sidecar,      \* <version>.toolmeta.json: its downloadProcess, or None
  metadata,     \* DownloadedTool.metadata: its DownloadProcess, or Nil
  paused,       \* DownloadedTool.paused
  locks,        \* toolLocks: folder path -> holder
  active,       \* activeDownloads holds the key
  pc,           \* position of every Install / Uninstall call
  loc,          \* locals of the running Install of every installer
  uloc,         \* locals of the running Uninstall of every uninstaller
  events,       \* progress events emitted by the current Install of every installer
  reqs,         \* HTTP requests issued by the current Install of every installer
  ret,          \* value returned by the last call of every process
  calls,        \* number of calls started, per process and for Pause
  transferred,  \* body chunks received over all Installs
  pauseIssued,  \* a Pause was issued while the key was registered active
  activeInstalls, \* webui: activeInstalls holds the key
  task,         \* the install goroutine of handleInstall, per HTTP client
  resp,         \* status of the last answer to POST /api/install, per HTTP client
  connected,    \* sseClients: the registered client channels
  chans,        \* content of every client channel
  got,          \* sequence numbers written to the response stream of every client
  blog,         \* messages given to broadcastProgress while a client was registered
  fin,          \* arguments and environment of a resolver or version-selection call
  fout,         \* what that call returned
  srvStatus,    \* WebUIServer.status
  srvPort,      \* WebUIServer.port
  srvLoop,      \* the goroutine of the last successful Start
  srvStale,     \* a goroutine of an earlier Start that has not called Serve yet
  srvRet,       \* what the last Start or Stop returned
  srvCalls,     \* number of Start and Stop calls
  toolInstances, \* API.toolInstances[key]: the cached handle, NoTool when absent
  getCall,      \* position and locals of the GetToolWithVersion call of every caller
  created,      \* number of handles NewDownloadTool has made
  returned,     \* the handles GetToolWithVersion has returned
  pauseFlags,   \* the handles whose pause flag is set
  installing,   \* the handles on which Install was called
  verInstalled, \* per version: the entry path resolves
  keyLocks,     \* toolLocks: the folder strings whose mutex is held
  keyOp,        \* position and locals of the Install or Uninstall of every caller
  keyCalls,     \* number of Install and Uninstall calls on the versions
  closed,       \* the clients whose channel was closed
  sseClientsMu, \* the read-write lock of the client set: writer and readers
  bc,           \* position and locals of every broadcastProgress call
  sse,          \* position of the handleSSE call of every client
  sentOnClosed, \* a send on a closed channel happened
  hubOps        \* number of connects and broadcasts

vars == <<cfg, folder, tmpFile, tmpBad, extracted, staging, roEntry, roModified, tmpCopy,
          sidecar, metadata, paused, locks, active, pc, loc, uloc, events, reqs, ret, calls,
          transferred, pauseIssued, activeInstalls, task, resp, connected, chans, got,
          blog, fin, fout, srvStatus, srvPort, srvLoop, srvStale, srvRet, srvCalls,
          toolInstances, getCall, created, returned, pauseFlags, installing,
          verInstalled, keyLocks, keyOp, keyCalls,
          closed, sseClientsMu, bc, sse, sentOnClosed, hubOps>>

web == <<activeInstalls, task, resp, connected, got>>

disk == <<folder, tmpFile, tmpBad, extracted, staging, roEntry, roModified, tmpCopy, sidecar>>

server == <<srvStatus, srvPort, srvLoop, srvStale, srvRet, srvCalls>>

\* what the tool lifecycle, the web handlers and the pure calls leave alone
instances == <<toolInstances, getCall, created, returned, pauseFlags, installing>>

keyed == <<verInstalled, keyLocks, keyOp, keyCalls>>

hub == <<closed, sseClientsMu, bc, sse, sentOnClosed, hubOps>>

more == <<keyed, hub>>

side == <<server, instances, more>>

engine == <<cfg, disk, metadata, paused, locks, active, pc, loc, uloc, events, reqs, ret,
            calls, transferred, pauseIssued>>

\* the tool lifecycle, the web handlers and the pure calls
core == <<engine, web, chans, blog, fin, fout>>

ZeroLoc == [i |-> 0, known |-> 0, existing |-> 0, total |-> 0, downloaded |-> 0,
            remaining |-> 0, failed |-> <<>>, lastErr |-> FALSE, fast |-> FALSE,
            pend |-> "none"]

ZeroULoc == [key |-> KeyEmpty, acquired |-> FALSE, baseErr |-> "none", during |-> FALSE]

Ops == calls["i1"] + calls["i2"] + calls["u1"] + calls["pause"] + calls["crash"]

NoCall == [op |-> "none"]

\* ---------------------------------------------------------------- resolver
GetCandidateRootFoldersWritableFirst(ro, w) == <<w>> \o ro

\* getCandidateRootFolders: the read-only roots as configured, then the
\* writable root
GetCandidateRootFolders(ro, w) == ro \o <<w>>

\* resolveExistingPath: the first candidate root under which os.Stat of the
\* entry path succeeds; has is the set of roots that hold the entry
RECURSIVE ResolveExistingPath(_, _)
ResolveExistingPath(roots, has) ==
  IF roots = <<>> THEN [found |-> FALSE, folder |-> KeyEmpty]
  ELSE IF Head(roots) \in has THEN [found |-> TRUE, folder |-> Head(roots)]
  ELSE ResolveExistingPath(Tail(roots), has)

\* os.Stat of the entry path under the writable version folder
EntryW ==
  CASE cfg.entry = "payload" -> folder /\ extracted
    [] cfg.entry = "tempname" -> folder /\ tmpFile >= 0
    [] cfg.entry = "folder" -> folder
    [] OTHER -> FALSE

\* resolveExistingPath: read-only roots first, the writable root last
ResolveFolder ==
  ResolveExistingPath(GetCandidateRootFolders(<<KeyRO>>, KeyW),
                      {r \in {KeyRO, KeyW} : IF r = KeyRO THEN roEntry ELSE EntryW}).folder

DoesToolExist == ResolveFolder # KeyEmpty

TryLockAlwaysSucceeds(key) == TRUE

\* tryMutex.TryLock
TryLock(key) == locks[key] = Free

Urls == cfg.urls
NUrls == Len(cfg.urls)

\* ------------------------------------------------------------------- web UI
Clients == {"c1", "c2"}

\* the clients whose response stream accepts writes; the stream of the others
\* is stalled, so their handleSSE loop stays inside Fprintf
Readers == {"c1"}

\* handleSSE: make(chan ProgressMessage, 10)
ChanCap == 10

RecvKeep(q) == q

\* handleSSE: case msg := <-clientChan
Recv(q) == Tail(q)

ChanSendUnbounded(q, msg) == Append(q, msg)

\* broadcastProgress: select { case clientChan <- msg: default: }
ChanSend(q, msg) == IF Len(q) < ChanCap THEN Append(q, msg) ELSE q

\* broadcastProgress: one non-blocking send to every registered channel; blog
\* numbers the messages that were broadcast while a client was registered
Broadcast(ev) ==
  IF connected = {}
  THEN UNCHANGED <<chans, blog>>
  ELSE /\ blog' = Append(blog, ev)
       /\ chans' = [c \in Clients |->
                      IF c \in connected
                      THEN ChanSend(chans[c], [seq |-> Len(blog) + 1, ev |-> ev])
                      ELSE chans[c]]

InitCore(configs) ==
  /\ cfg \in configs
  /\ folder = FALSE
  /\ tmpFile = -1
  /\ tmpBad = FALSE
  /\ extracted = FALSE
  /\ staging = FALSE
  /\ roEntry = cfg.ro
  /\ roModified = FALSE
  /\ tmpCopy = "none"
  /\ sidecar = <<ZeroDP>>
  /\ metadata = <<ZeroDP>>
  /\ paused = 0
  /\ locks = [k \in LockKeys |-> Free]
  /\ active = FALSE
  /\ pc = [p \in Procs |-> "idle"]
  /\ loc = [p \in Installers |-> ZeroLoc]
  /\ uloc = [u \in Uninstallers |-> ZeroULoc]
  /\ events = [p \in Installers |-> <<>>]
  /\ reqs = [p \in Installers |-> <<>>]
  /\ ret = [p \in Procs |-> "none"]
  /\ calls = [p \in Procs \cup {"pause", "crash"} |-> 0]
  /\ transferred = 0
  /\ pauseIssued = FALSE
  /\ activeInstalls = FALSE
  /\ task = [p \in Installers |-> "none"]
  /\ resp = [p \in Installers |-> "none"]
  /\ connected = {}
  /\ chans = [c \in Clients |-> <<>>]
  /\ got = [c \in Clients |-> <<>>]
  /\ blog = <<>>
  /\ srvStatus = StatusStopped
  /\ srvPort = 0
  /\ srvLoop = "none"
  /\ srvStale = FALSE
  /\ srvRet = "none"
  /\ srvCalls = 0
  /\ toolInstances = NoTool
  /\ getCall = [c \in Callers |-> ZeroGet]
  /\ created = 0
  /\ returned = {}
  /\ pauseFlags = {}
  /\ installing = {}
  /\ verInstalled = [v \in KeyVersions |-> FALSE]
  /\ keyLocks = {}
  /\ keyOp = [k \in KeyProcs |-> ZeroKeyOp]
  /\ keyCalls = 0
  /\ closed = {}
  /\ sseClientsMu = [w |-> FALSE, r |-> {}]
  /\ bc = [b \in Broadcasters |-> ZeroBc]
  /\ sse = [c \in Clients |-> "idle"]
  /\ sentOnClosed = FALSE
  /\ hubOps = 0

\* no resolver or version-selection call is observed
InitWith(configs) ==
  /\ InitCore(configs)
  /\ fin = NoCall
  /\ fout = NoCall

Init == InitWith(Configs)

\* emitProgress of installer p: sidecar, in-memory record and event log
Emit(p, ev) ==
  LET m == MetaAfterEmit(metadata, sidecar, ev)
  IN /\ metadata' = m[1]
     /\ sidecar' = m[2]
     /\ events' = [events EXCEPT ![p] = Append(@, ev)]
     /\ Broadcast(ev)

\* ------------------------------------------------------------------ Install
\* Install: getToolMutex(GetWritableToolFolder()).TryLock()
InstallCall(p) ==
  /\ pc[p] = "idle"
  /\ calls' = [calls EXCEPT ![p] = @ + 1]
  /\ IF TryLock(KeyW)
     THEN /\ locks' = [locks EXCEPT ![KeyW] = p]
          /\ pc' = [pc EXCEPT ![p] = "locked"]
          /\ loc' = [loc EXCEPT ![p] = ZeroLoc]
          /\ events' = [events EXCEPT ![p] = <<>>]
          /\ reqs' = [reqs EXCEPT ![p] = <<>>]
          /\ ret' = [ret EXCEPT ![p] = "none"]
     ELSE /\ ret' = [ret EXCEPT ![p] = "busy"]
          /\ UNCHANGED <<locks, pc, loc, events, reqs>>
  /\ UNCHANGED <<cfg, disk, metadata, paused, active, uloc, transferred, pauseIssued,
                 chans, blog>>

\* Install called from Go code
InstallTryLock(p) ==
  /\ Ops < MaxOps
  /\ task[p] = "none"
  /\ InstallCall(p)
  /\ UNCHANGED <<web, side, fin, fout>>

\* Install: markActive
InstallMarkActive(p) ==
  /\ pc[p] = "locked"
  /\ active' = TRUE
  /\ pc' = [pc EXCEPT ![p] = "marked"]
  /\ UNCHANGED <<cfg, web, side, fin, fout, disk, metadata, paused, locks, loc, uloc, events, chans, blog, reqs, ret,
                 calls, transferred, pauseIssued>>

\* downloadTool: clears the pause flag, ensureMetadata, the fast path,
\* creation of the writable folder, removal of a stale staging folder (when
\* the removal fails the error is returned and no event is emitted), the
\* empty URL list
DownloadToolBegin(p) ==
  /\ pc[p] = "marked"
  /\ paused' = 0
  /\ IF DoesToolExist
     THEN LET r == MetaAfterReset(metadata, sidecar)
              m == MetaAfterEmit(r[1], r[2], EvPlain("completed"))
          IN /\ metadata' = m[1]
             /\ sidecar' = m[2]
             /\ events' = [events EXCEPT ![p] = Append(@, EvPlain("completed"))]
             /\ Broadcast(EvPlain("completed"))
             /\ loc' = [loc EXCEPT ![p].fast = TRUE]
             /\ pc' = [pc EXCEPT ![p] = "post"]
             /\ UNCHANGED <<folder, staging>>
     ELSE \E stuck \in IF staging THEN BOOLEAN ELSE {FALSE} :
            /\ folder' = TRUE
            /\ IF stuck
               THEN /\ LET e == EnsureMeta(metadata, sidecar)
                       IN /\ metadata' = e[1]
                          /\ sidecar' = e[2]
                    /\ loc' = [loc EXCEPT ![p].pend = "err"]
                    /\ pc' = [pc EXCEPT ![p] = "release"]
                    /\ UNCHANGED <<staging, events, chans, blog>>
               ELSE /\ staging' = FALSE
                    /\ IF NUrls = 0
                       THEN /\ LET e == EnsureMeta(metadata, sidecar)
                                   m == MetaAfterEmit(e[1], e[2], EvPlain("failed"))
                               IN /\ metadata' = m[1]
                                  /\ sidecar' = m[2]
                            /\ events' = [events EXCEPT ![p] = Append(@, EvPlain("failed"))]
                            /\ Broadcast(EvPlain("failed"))
                            /\ loc' = [loc EXCEPT ![p].pend = "err"]
                            /\ pc' = [pc EXCEPT ![p] = "release"]
                       ELSE /\ LET e == EnsureMeta(metadata, sidecar)
                               IN /\ metadata' = e[1]
                                  /\ sidecar' = e[2]
                            /\ loc' = [loc EXCEPT ![p].i = 1]
                            /\ pc' = [pc EXCEPT ![p] = "trying"]
                            /\ UNCHANGED <<events, chans, blog>>
  /\ UNCHANGED <<cfg, web, side, fin, fout, tmpFile, tmpBad, extracted, roEntry, roModified, tmpCopy, locks,
                 active, uloc, reqs, ret, calls, transferred, pauseIssued>>

\* downloadTool: head of the attempt loop: an empty URL is skipped, the
\* trying event; after the loop the final failed event when an attempt left
\* an error, else an error is returned and no event is emitted
AttemptLoop(p) ==
  /\ pc[p] = "trying"
  /\ IF loc[p].i > NUrls
     THEN /\ IF loc[p].lastErr
             THEN Emit(p, Ev("failed", 0, 0, NUrls, NUrls, loc[p].failed, NUrls))
             ELSE UNCHANGED <<metadata, sidecar, events, chans, blog>>
          /\ loc' = [loc EXCEPT ![p].pend = "err"]
          /\ pc' = [pc EXCEPT ![p] = "release"]
     ELSE IF Urls[loc[p].i] = ""
     THEN /\ loc' = [loc EXCEPT ![p].i = @ + 1]
          /\ UNCHANGED <<pc, metadata, sidecar, events, chans, blog>>
     ELSE /\ Emit(p, Ev("trying", 0, 0, loc[p].i, NUrls, loc[p].failed, NUrls))
          /\ pc' = [pc EXCEPT ![p] = "head"]
          /\ UNCHANGED loc
  /\ UNCHANGED <<cfg, web, side, fin, fout, folder, tmpFile, tmpBad, extracted, staging, roEntry, roModified, tmpCopy, paused,
                 locks, active, uloc, reqs, ret, calls, transferred, pauseIssued>>

ShouldDownloadKeepsFile(known, existing) ==
  IF existing # 0 /\ known # 0 /\ existing = known THEN <<FALSE, FALSE>> ELSE <<TRUE, FALSE>>

\* shouldDownload: <<needDownload, deleteFirst>>
ShouldDownload(known, existing) ==
  IF existing = 0 THEN <<TRUE, FALSE>>
  ELSE IF known = 0 THEN <<TRUE, FALSE>>
  ELSE IF existing = known THEN <<FALSE, FALSE>>
  ELSE IF existing > known THEN <<TRUE, TRUE>>
  ELSE <<TRUE, FALSE>>

\* attemptDownload after the HEAD request, and the Range header of
\* performDownload: whether the local file is deleted, whether a GET is sent,
\* and the offset of its Range header bytes=<range>-, 0 for no Range header
AttemptPlan(known, existing) ==
  LET sd == ShouldDownload(known, existing)
  IN [deleted |-> sd[2], get |-> sd[1], range |-> IF sd[2] THEN 0 ELSE existing]

NextUrlSame(l, recorded) ==
  [l EXCEPT !.lastErr = TRUE,
            !.failed = IF recorded THEN Append(@, l.i) ELSE @]

\* the attempt of installer p failed: downloadTool continues with the next URL
NextUrl(l, recorded) ==
  [l EXCEPT !.i = @ + 1,
            !.lastErr = TRUE,
            !.failed = IF recorded THEN Append(@, l.i) ELSE @]

\* attemptDownload: HEAD, the file name, size of the local temp file,
\* shouldDownload, deleteFirst; from a string that url.Parse rejects no HEAD
\* request and no file name come (getFileNameFromURL fails), and the attempt
\* ends without a record in the failed list
AttemptHead(p) ==
  /\ pc[p] = "head"
  /\ IF Urls[loc[p].i] = "badurl"
     THEN /\ loc' = [loc EXCEPT ![p] = NextUrl(loc[p], FALSE)]
          /\ pc' = [pc EXCEPT ![p] = "trying"]
          /\ UNCHANGED <<reqs, tmpFile, tmpBad>>
     ELSE LET known == HeadSize(Urls[loc[p].i])
              existing == IF tmpFile >= 0 THEN tmpFile ELSE 0
              plan == AttemptPlan(known, existing)
          IN /\ reqs' = [reqs EXCEPT ![p] = Append(@, [m |-> "HEAD", range |-> 0,
                                                       local |-> existing])]
             /\ tmpFile' = IF plan.deleted THEN -1 ELSE tmpFile
             /\ tmpBad' = IF plan.deleted THEN FALSE ELSE tmpBad
             /\ loc' = [loc EXCEPT ![p].known = known, ![p].existing = plan.range]
             /\ pc' = [pc EXCEPT ![p] = IF plan.get THEN "get" ELSE "extract"]
  /\ UNCHANGED <<cfg, web, side, fin, fout, folder, extracted, staging, roEntry, roModified, tmpCopy, sidecar, metadata,
                 paused, locks, active, uloc, events, chans, blog, ret, calls, transferred, pauseIssued>>

\* performDownload: the GET request, the status of the response, opening the
\* output file, totalBytes
PerformGet(p) ==
  /\ pc[p] = "get"
  /\ LET l == loc[p]
         rng == l.existing
         status == GetStatus(Urls[l.i], rng)
         partial == status = 206 /\ l.existing > 0
         contentLength == ContentLength(Urls[l.i], status, rng)
         openOk == IF partial THEN tmpFile >= 0 ELSE folder
         start == IF partial THEN l.existing ELSE 0
         total == IF l.known # 0 THEN l.known ELSE contentLength + start
     IN /\ reqs' = [reqs EXCEPT ![p] = Append(@, [m |-> "GET", range |-> rng,
                                                  local |-> IF tmpFile >= 0 THEN tmpFile ELSE 0])]
        /\ CASE status = 416 ->
                  IF l.known > 0 /\ l.existing = l.known
                  THEN /\ pc' = [pc EXCEPT ![p] = "extract"]
                       /\ UNCHANGED <<loc, tmpFile, tmpBad>>
                  ELSE /\ loc' = [loc EXCEPT ![p] = NextUrl(l, TRUE)]
                       /\ pc' = [pc EXCEPT ![p] = "trying"]
                       /\ UNCHANGED <<tmpFile, tmpBad>>
             [] status \notin {200, 206, 416} ->
                  /\ loc' = [loc EXCEPT ![p] = NextUrl(l, TRUE)]
                  /\ pc' = [pc EXCEPT ![p] = "trying"]
                  /\ UNCHANGED <<tmpFile, tmpBad>>
             [] OTHER ->
                  IF openOk
                  THEN /\ tmpFile' = IF partial THEN tmpFile ELSE 0
                       /\ tmpBad' = IF partial THEN tmpBad ELSE FALSE
                       /\ loc' = [loc EXCEPT ![p].existing = start, ![p].total = total,
                                             ![p].downloaded = start,
                                             ![p].remaining = BodyLen(status, rng)]
                       /\ pc' = [pc EXCEPT ![p] = "read"]
                  ELSE /\ loc' = [loc EXCEPT ![p] = NextUrl(l, FALSE)]
                       /\ pc' = [pc EXCEPT ![p] = "trying"]
                       /\ UNCHANGED <<tmpFile, tmpBad>>
  /\ UNCHANGED <<cfg, web, side, fin, fout, folder, extracted, staging, roEntry, roModified, tmpCopy, sidecar, metadata,
                 paused, locks, active, uloc, events, chans, blog, ret, calls, transferred, pauseIssued>>

PausedEventRecordsUrl(l, size) ==
  Ev("paused", l.total, size, l.i, NUrls, Append(l.failed, l.i), NUrls)

\* performDownload: the paused event, with the size os.Stat finds for the temp
\* file, totalBytes and a copy of the failed list
PausedEvent(l, size) == Ev("paused", l.total, size, l.i, NUrls, l.failed, NUrls)

\* progressReader.Read inside io.Copy: the pause check, one chunk of the body
\* written to the temp file, the downloading event when 500 ms have passed,
\* the end of the body; the paused branch of performDownload
ReadBody(p) ==
  /\ pc[p] = "read"
  /\ LET l == loc[p]
         broken == Urls[l.i] = "reset"
     IN IF paused = 1
        THEN /\ Emit(p, PausedEvent(l, IF tmpFile >= 0 THEN tmpFile ELSE 0))
             /\ loc' = [loc EXCEPT ![p].pend = "nil"]
             /\ pc' = [pc EXCEPT ![p] = "release"]
             /\ UNCHANGED <<tmpFile, tmpBad, transferred>>
        ELSE IF l.remaining = 0
        THEN /\ pc' = [pc EXCEPT ![p] = "extract"]
             /\ UNCHANGED <<tmpFile, tmpBad, transferred, loc, metadata, sidecar, events, chans, blog>>
        ELSE \/ /\ broken
                /\ loc' = [loc EXCEPT ![p] = NextUrl(l, TRUE)]
                /\ pc' = [pc EXCEPT ![p] = "trying"]
                /\ UNCHANGED <<tmpFile, tmpBad, transferred, metadata, sidecar, events, chans, blog>>
             \/ /\ broken => l.remaining > 1
                /\ tmpFile' = IF tmpFile >= 0 THEN tmpFile + 1 ELSE tmpFile
                /\ tmpBad' = (tmpBad \/ (tmpFile >= 0 /\ Urls[l.i] = "corrupt"))
                /\ transferred' = transferred + 1
                /\ loc' = [loc EXCEPT ![p].downloaded = @ + 1, ![p].remaining = @ - 1]
                /\ \/ Emit(p, Ev("downloading", l.total, l.downloaded + 1, l.i, NUrls,
                                 l.failed, NUrls))
                   \/ UNCHANGED <<metadata, sidecar, events, chans, blog>>
                /\ \/ pc' = pc
                   \/ /\ l.remaining = 1
                      /\ pc' = [pc EXCEPT ![p] = "extract"]
  /\ UNCHANGED <<cfg, web, side, fin, fout, folder, extracted, staging, roEntry, roModified, tmpCopy, paused, locks,
                 active, uloc, reqs, ret, calls, pauseIssued>>

ExtractsAnything(size, bad) == TRUE

\* extractZipFile, extractTarGzFile, extractTarXzFile return nil: the temp file
\* is the whole archive and the archive is a genuine one
Extracts(size, bad) == size = FileSize /\ ~bad

\* extractIfNeeded and extractDownloadedFile: the extracting event, the staged
\* extraction and the rename onto the version folder; a raw file is left as it is
ExtractIfNeeded(p) ==
  /\ pc[p] = "extract"
  /\ LET l == loc[p]
     IN IF cfg.isArchive
        THEN /\ Emit(p, Ev("extracting", 0, 0, l.i, NUrls, l.failed, NUrls))
             /\ IF Extracts(tmpFile, tmpBad)
                THEN /\ staging' = TRUE
                     /\ pc' = [pc EXCEPT ![p] = "ex_rm"]
                     /\ UNCHANGED loc
                ELSE /\ staging' = FALSE
                     /\ loc' = [loc EXCEPT ![p] = NextUrl(l, TRUE)]
                     /\ pc' = [pc EXCEPT ![p] = "trying"]
        ELSE /\ pc' = [pc EXCEPT ![p] = "post"]
             /\ UNCHANGED <<staging, loc, metadata, sidecar, events, chans, blog>>
  /\ UNCHANGED <<cfg, web, side, fin, fout, folder, tmpFile, tmpBad, extracted, roEntry, roModified, tmpCopy,
                 paused, locks, active, uloc, reqs, ret, calls, transferred, pauseIssued>>

\* extractDownloadedFile: os.RemoveAll of the version folder, the downloaded
\* archive included
ExtractRemoveTarget(p) ==
  /\ pc[p] = "ex_rm"
  /\ folder' = FALSE
  /\ tmpFile' = -1
  /\ tmpBad' = FALSE
  /\ extracted' = FALSE
  /\ pc' = [pc EXCEPT ![p] = "ex_mv"]
  /\ UNCHANGED <<cfg, web, side, fin, fout, staging, roEntry, roModified, tmpCopy, sidecar, metadata, paused,
                 locks, active, loc, uloc, events, chans, blog, reqs, ret, calls, transferred,
                 pauseIssued>>

\* extractDownloadedFile: os.Rename of the staging folder onto the version
\* folder; the rename fails when the staging folder is gone or when the
\* version folder exists again
ExtractRename(p) ==
  /\ pc[p] = "ex_mv"
  /\ IF staging /\ ~folder
     THEN /\ folder' = TRUE
          /\ extracted' = TRUE
          /\ staging' = FALSE
          /\ pc' = [pc EXCEPT ![p] = "post"]
          /\ UNCHANGED loc
     ELSE /\ staging' = FALSE
          /\ loc' = [loc EXCEPT ![p] = NextUrl(loc[p], TRUE)]
          /\ pc' = [pc EXCEPT ![p] = "trying"]
          /\ UNCHANGED <<folder, extracted>>
  /\ UNCHANGED <<cfg, web, side, fin, fout, tmpFile, tmpBad, roEntry, roModified, tmpCopy, sidecar, metadata,
                 paused, locks, active, uloc, events, chans, blog, reqs, ret, calls, transferred,
                 pauseIssued>>

\* Install, storage folder without exec support: the tmp-exec root, the probe
\* of the exec folder (isExecSupported creates the folder with MkdirAll), the
\* copy and the second probe; the status to emit and the version under the
\* tmp-exec root afterwards
ExecStaging(env, tmp) ==
  CASE env = "noexec_notmp" -> [status |-> "failed", tmp |-> tmp]
    [] env = "noexec_tmp_bad" ->
         [status |-> "failed", tmp |-> IF tmp = "none" THEN "folder" ELSE tmp]
    [] env = "noexec_tmp_cperr" -> [status |-> "failed", tmp |-> "none"]
    [] env = "noexec_tmp_lost" -> [status |-> "failed", tmp |-> "none"]
    [] OTHER -> [status |-> "completed", tmp |-> "copy"]

\* Install: the exec check after downloadTool returned nil, the final event
PostInstall(p) ==
  /\ pc[p] = "post"
  /\ LET storage == ResolveFolder
         supported == cfg.execEnv = "ok"
         outcome ==
           IF ~cfg.isExecutable THEN "completed"
           ELSE IF storage = KeyEmpty THEN "failed"
           ELSE IF supported THEN "completed"
           ELSE ExecStaging(cfg.execEnv, tmpCopy).status
         probed == cfg.isExecutable /\ storage # KeyEmpty
     IN /\ Emit(p, EvPlain(outcome))
        /\ roModified' = (roModified \/ (probed /\ supported /\ storage = KeyRO))
        /\ tmpCopy' = IF probed /\ ~supported
                      THEN ExecStaging(cfg.execEnv, tmpCopy).tmp
                      ELSE tmpCopy
        /\ loc' = [loc EXCEPT ![p].pend = IF outcome = "completed" THEN "nil" ELSE "err"]
        /\ pc' = [pc EXCEPT ![p] = "release"]
  /\ UNCHANGED <<cfg, web, side, fin, fout, folder, tmpFile, tmpBad, extracted, staging, roEntry, paused, locks, active, uloc,
                 reqs, ret, calls, transferred>>
  /\ UNCHANGED pauseIssued

UnmarkActiveKeeps(registered) == registered

\* unmarkActive: delete(activeDownloads, key)
UnmarkActive(registered) == FALSE

\* handleActiveTasks: NeedsSSE: len(keys) > 0 over listActiveDownloads
NeedsSSE == active

\* Install: deferred unmarkActive
InstallUnmark(p) ==
  /\ pc[p] = "release"
  /\ active' = UnmarkActive(active)
  /\ pauseIssued' = FALSE
  /\ pc' = [pc EXCEPT ![p] = "unlock"]
  /\ UNCHANGED <<cfg, web, side, fin, fout, disk, metadata, paused, locks, loc, uloc, events, chans, blog, reqs, ret, calls,
                 transferred>>

\* Install: deferred mu.Unlock and the return
InstallReturn(p) ==
  /\ pc[p] = "unlock"
  /\ locks' = [locks EXCEPT ![KeyW] = Free]
  /\ ret' = [ret EXCEPT ![p] = loc[p].pend]
  /\ pc' = [pc EXCEPT ![p] = "idle"]
  /\ UNCHANGED <<cfg, web, side, fin, fout, disk, metadata, paused, active, loc, uloc, events, chans, blog, reqs, calls,
                 transferred, pauseIssued>>

\* -------------------------------------------------------------------- Pause
Pause ==
  /\ Ops < MaxOps
  /\ calls' = [calls EXCEPT !["pause"] = @ + 1]
  /\ paused' = 1
  /\ pauseIssued' = (pauseIssued \/ active)
  /\ UNCHANGED <<cfg, web, side, fin, fout, disk, metadata, locks, active, pc, loc, uloc, events, chans, blog, reqs, ret,
                 transferred>>

\* -------------------------------------------------------------------- crash
\* The process dies during an Install and is started again: the mutexes, the
\* active registry, the pause flag and every goroutine are gone, the files are
\* kept, and NewDownloadTool loads the metadata from the sidecar.
Crash ==
  /\ Ops < MaxOps
  /\ \E p \in Installers : pc[p] # "idle"
  /\ calls' = [calls EXCEPT !["crash"] = @ + 1]
  /\ pc' = [p \in Procs |-> "idle"]
  /\ locks' = [k \in LockKeys |-> Free]
  /\ active' = FALSE
  /\ paused' = 0
  /\ pauseIssued' = FALSE
  /\ loc' = [p \in Installers |-> ZeroLoc]
  /\ uloc' = [u \in Uninstallers |-> ZeroULoc]
  /\ events' = [p \in Installers |-> <<>>]
  /\ reqs' = [p \in Installers |-> <<>>]
  /\ ret' = [p \in Procs |-> "none"]
  /\ LET e == EnsureMeta(Nil, sidecar)
     IN /\ metadata' = e[1]
        /\ sidecar' = e[2]
  /\ activeInstalls' = FALSE
  /\ task' = [p \in Installers |-> "none"]
  /\ connected' = {}
  /\ chans' = [c \in Clients |-> <<>>]
  /\ UNCHANGED <<cfg, folder, tmpFile, tmpBad, extracted, staging, roEntry, roModified,
                 tmpCopy, transferred, resp, got, blog, side, fin, fout>>

\* ---------------------------------------------------------------- Uninstall
\* an Install of the key is under way and the version does not resolve yet
InstallInProgress == \E p \in Installers : pc[p] \notin {"idle", "release", "unlock"}

\* BaseTool.Uninstall: getToolMutex(GetToolFolder()).TryLock()
UninstallTryLock(u) ==
  /\ pc[u] = "idle"
  /\ Ops < MaxOps
  /\ calls' = [calls EXCEPT ![u] = @ + 1]
  /\ ret' = [ret EXCEPT ![u] = "none"]
  /\ LET key == ResolveFolder
         during == InstallInProgress /\ ~DoesToolExist
     IN IF TryLock(key)
        THEN /\ locks' = [locks EXCEPT ![key] = u]
             /\ uloc' = [uloc EXCEPT ![u] = [key |-> key, acquired |-> TRUE,
                                             baseErr |-> "none", during |-> during]]
             /\ pc' = [pc EXCEPT ![u] = "u_base"]
        ELSE /\ uloc' = [uloc EXCEPT ![u] = [key |-> key, acquired |-> FALSE,
                                             baseErr |-> "busy", during |-> during]]
             /\ pc' = [pc EXCEPT ![u] = "u_w"]
             /\ UNCHANGED locks
  /\ UNCHANGED <<cfg, web, side, fin, fout, disk, metadata, paused, active, loc, events, chans, blog, reqs, transferred,
                 pauseIssued>>

\* BaseTool.Uninstall under the mutex: the resolved folder is renamed to a
\* trash folder and deleted, the copy under the tmp-exec root is removed.
\* The rename of a folder of the read-only root fails when that root is
\* mounted read-only and succeeds otherwise.
UninstallBase(u) ==
  /\ pc[u] = "u_base"
  /\ LET key == uloc[u].key
     IN \/ /\ key = KeyEmpty
           /\ uloc' = [uloc EXCEPT ![u].baseErr = "nil"]
           /\ UNCHANGED <<folder, tmpFile, tmpBad, extracted, staging, roEntry, roModified, tmpCopy>>
        \/ /\ key = KeyW
           /\ folder' = FALSE
           /\ tmpFile' = -1
           /\ tmpBad' = FALSE
           /\ extracted' = FALSE
           /\ tmpCopy' = "none"
           /\ uloc' = [uloc EXCEPT ![u].baseErr = "nil"]
           /\ UNCHANGED <<staging, roEntry, roModified>>
        \/ /\ key = KeyRO
           /\ roEntry' = FALSE
           /\ roModified' = TRUE
           /\ tmpCopy' = "none"
           /\ uloc' = [uloc EXCEPT ![u].baseErr = "nil"]
           /\ UNCHANGED <<folder, tmpFile, tmpBad, extracted, staging>>
        \/ /\ key = KeyRO
           /\ uloc' = [uloc EXCEPT ![u].baseErr = "err"]
           /\ UNCHANGED <<folder, tmpFile, tmpBad, extracted, staging, roEntry, roModified, tmpCopy>>
     /\ locks' = [locks EXCEPT ![key] = Free]
  /\ pc' = [pc EXCEPT ![u] = "u_w"]
  /\ UNCHANGED <<cfg, web, side, fin, fout, sidecar, metadata, paused, active, loc, events, chans, blog, reqs, ret, calls,
                 transferred, pauseIssued>>

\* DownloadedTool.Uninstall: the writable version folder is moved to trash and deleted
UninstallWritable(u) ==
  /\ pc[u] = "u_w"
  /\ folder' = FALSE
  /\ tmpFile' = -1
  /\ tmpBad' = FALSE
  /\ extracted' = FALSE
  /\ pc' = [pc EXCEPT ![u] = "u_meta"]
  /\ UNCHANGED <<cfg, web, side, fin, fout, staging, roEntry, roModified, tmpCopy, sidecar, metadata, paused, locks,
                 active, loc, uloc, events, chans, blog, reqs, ret, calls, transferred, pauseIssued>>

\* DownloadedTool.Uninstall: p.metadata = nil
UninstallClearMeta(u) ==
  /\ pc[u] = "u_meta"
  /\ metadata' = Nil
  /\ pc' = [pc EXCEPT ![u] = "u_rm"]
  /\ UNCHANGED <<cfg, web, side, fin, fout, disk, paused, locks, active, loc, uloc, events, chans, blog, reqs, ret, calls,
                 transferred, pauseIssued>>

\* DownloadedTool.Uninstall: os.Remove of the sidecar and of its .tmp companion
UninstallRemoveMeta(u) ==
  /\ pc[u] = "u_rm"
  /\ sidecar' = None
  /\ pc' = [pc EXCEPT ![u] = "u_ret"]
  /\ UNCHANGED <<cfg, web, side, fin, fout, folder, tmpFile, tmpBad, extracted, staging, roEntry, roModified, tmpCopy, metadata,
                 paused, locks, active, loc, uloc, events, chans, blog, reqs, ret, calls, transferred,
                 pauseIssued>>

\* DownloadedTool.Uninstall: the return value
UninstallResult(baseErr) == IF baseErr = "busy" THEN "busy" ELSE "nil"

UninstallReturn(u) ==
  /\ pc[u] = "u_ret"
  /\ ret' = [ret EXCEPT ![u] = UninstallResult(uloc[u].baseErr)]
  /\ pc' = [pc EXCEPT ![u] = "idle"]
  /\ UNCHANGED <<cfg, web, side, fin, fout, disk, metadata, paused, locks, active, loc, uloc, events, chans, blog, reqs,
                 calls, transferred, pauseIssued>>

\* -------------------------------------------------------- version selection
\* the version strings of the catalog: two that denote the same version, a
\* higher one, and a date-like one that is no semantic version; none carries
\* a prerelease or build suffix
Versions == {"9.0.0", "v9", "10.0.0", "2024-01"}

\* the bytes of the version strings
Bytes(v) ==
  CASE v = "9.0.0" -> <<57, 46, 48, 46, 48>>
    [] v = "v9" -> <<118, 57>>
    [] v = "10.0.0" -> <<49, 48, 46, 48, 46, 48>>
    [] v = "2024-01" -> <<50, 48, 50, 52, 45, 48, 49>>
    [] v = "9.0.0-rc1" -> <<57, 46, 48, 46, 48, 45, 114, 99, 49>>
    [] v = "9.0.0+b1" -> <<57, 46, 48, 46, 48, 43, 98, 49>>

\* strings.SplitN(s, ".", n)
RECURSIVE SplitN(_, _)
SplitN(s, n) ==
  LET dots == {k \in 1..Len(s) : s[k] = 46}
  IN IF n = 1 \/ dots = {} THEN <<s>>
     ELSE LET d == CHOOSE k \in dots : \A j \in dots : k <= j
          IN <<SubSeq(s, 1, d - 1)>> \o SplitN(SubSeq(s, d + 1, Len(s)), n - 1)

\* the value of a string of decimal digits
RECURSIVE ToNumber(_)
ToNumber(s) ==
  IF s = <<>> THEN 0 ELSE 10 * ToNumber(SubSeq(s, 1, Len(s) - 1)) + (s[Len(s)] - 48)

\* strings.IndexRune, counted from 1, 0 when the byte does not occur
IndexRune(s, b) ==
  LET at == {k \in 1..Len(s) : s[k] = b}
  IN IF at = {} THEN 0 ELSE CHOOSE k \in at : \A j \in at : k <= j

AllDigits(s) == s # <<>> /\ \A k \in 1..Len(s) : s[k] \in 48..57

Unparsed == [ok |-> FALSE, num |-> <<0, 0, 0>>, pre |-> <<>>]

\* s cut at the first byte b: what is before it and, split at the dots, what
\* is after it
CutAt(s, b) ==
  LET k == IndexRune(s, b)
  IN IF k > 0
     THEN [head |-> SubSeq(s, 1, k - 1),
           idents |-> SplitN(SubSeq(s, k + 1, Len(s)), Len(s) + 1)]
     ELSE [head |-> s, idents |-> <<>>]

\* semver.Parse: major, minor and patch must be numbers and no prerelease or
\* build identifier may be empty
ParseChecked(major, minor, patch, pre, build) ==
  IF /\ AllDigits(major) /\ AllDigits(minor) /\ AllDigits(patch)
     /\ \A k \in 1..Len(pre) : pre[k] # <<>>
     /\ \A k \in 1..Len(build) : build[k] # <<>>
  THEN [ok |-> TRUE, num |-> <<ToNumber(major), ToNumber(minor), ToNumber(patch)>>,
        pre |-> pre]
  ELSE Unparsed

\* semver.Parse: the part after the build metadata is cut at - (prerelease)
ParsePre(major, minor, cut, build) ==
  ParseChecked(major, minor, cut.head, cut.idents, build)

\* semver.Parse: the third part is cut at + (build metadata)
ParseBuild(major, minor, cut) ==
  ParsePre(major, minor, CutAt(cut.head, 45), cut.idents)

\* semver.ParseTolerant on the parts of the string: fewer than three parts with
\* a + or - in the last one is an error, missing parts are filled with 0
ParseParts(parts) ==
  IF Len(parts) < 3 /\ \E k \in 1..Len(parts[Len(parts)]) : parts[Len(parts)][k] \in {43, 45}
  THEN Unparsed
  ELSE ParseBuild(parts[1],
                  IF Len(parts) >= 2 THEN parts[2] ELSE <<48>>,
                  CutAt(IF Len(parts) >= 3 THEN parts[3] ELSE <<48>>, 43))

\* strings.TrimPrefix(s, "v")
TrimV(b) == IF b # <<>> /\ Head(b) = 118 THEN Tail(b) ELSE b

\* semver.ParseTolerant: a leading v is dropped and the string split at the
\* first two dots
ParseTolerant(v) == ParseParts(SplitN(TrimV(Bytes(v)), 3))

\* semver Version.Compare on major, minor, patch
SemCompare(a, b) ==
  LET diff == {i \in 1..3 : a[i] # b[i]}
  IN IF diff = {} THEN 0
     ELSE LET i == CHOOSE k \in diff : \A j \in diff : k <= j
          IN IF a[i] > b[i] THEN 1 ELSE -1

\* strings.Compare
RECURSIVE StringsCompare(_, _)
StringsCompare(a, b) ==
  IF a = <<>> /\ b = <<>> THEN 0
  ELSE IF a = <<>> THEN -1
  ELSE IF b = <<>> THEN 1
  ELSE IF Head(a) < Head(b) THEN -1
  ELSE IF Head(a) > Head(b) THEN 1
  ELSE StringsCompare(Tail(a), Tail(b))

Sign(n) == IF n > 0 THEN 1 ELSE IF n < 0 THEN -1 ELSE 0

Min(m, n) == IF m < n THEN m ELSE n

\* semver PRVersion.Compare: a number is below a word, numbers compare by
\* value, words as strings
PRCompareKinds(x, y, xIsNum, yIsNum) ==
  IF xIsNum /\ ~yIsNum THEN -1
  ELSE IF ~xIsNum /\ yIsNum THEN 1
  ELSE IF xIsNum THEN Sign(ToNumber(x) - ToNumber(y))
  ELSE StringsCompare(x, y)

PRCompare(x, y) == PRCompareKinds(x, y, AllDigits(x), AllDigits(y))

\* semver Version.Compare on two lists of prerelease identifiers that differ
\* at the indices diff: the first differing identifier decides, else the
\* longer list is above
FirstDiff(a, b, diff) ==
  IF diff # {}
  THEN PRCompare(a[CHOOSE k \in diff : \A j \in diff : k <= j],
                 b[CHOOSE k \in diff : \A j \in diff : k <= j])
  ELSE Sign(Len(a) - Len(b))

\* semver Version.Compare on the prerelease identifiers: a version without
\* prerelease is above one with, else the first differing identifier
\* decides, else the longer list is above
PreCompare(a, b) ==
  IF a = <<>> /\ b = <<>> THEN 0
  ELSE IF a = <<>> THEN 1
  ELSE IF b = <<>> THEN -1
  ELSE FirstDiff(a, b, {i \in 1..Min(Len(a), Len(b)) : PRCompare(a[i], b[i]) # 0})

\* semver Version.Compare: major, minor, patch, then the prerelease
FirstNonZero(c, d) == IF c # 0 THEN c ELSE d

\* compareVersions on the two parse results and the two strings
CompareParsed(sv1, sv2, b1, b2) ==
  IF sv1.ok /\ sv2.ok
  THEN FirstNonZero(SemCompare(sv1.num, sv2.num), PreCompare(sv1.pre, sv2.pre))
  ELSE StringsCompare(b1, b2)

\* compareVersions: semantic comparison when both strings parse, else the
\* comparison of the strings
CompareVersions(v1, v2) ==
  CompareParsed(ParseTolerant(v1), ParseTolerant(v2), Bytes(v1), Bytes(v2))

\* the less function GetLatestVersion hands to sort.Slice
Less(v1, v2) == CompareVersions(v1, v2) > 0

\* sort.Slice on a short slice is an insertion sort: element j moves down
\* while it is less than its predecessor
RECURSIVE SinkDown(_, _)
SinkDown(s, j) ==
  IF j > 1 /\ Less(s[j], s[j - 1])
  THEN SinkDown([s EXCEPT ![j] = s[j - 1], ![j - 1] = s[j]], j - 1)
  ELSE s

RECURSIVE InsertionSortFrom(_, _)
InsertionSortFrom(s, i) ==
  IF i > Len(s) THEN s ELSE InsertionSortFrom(SinkDown(s, i), i + 1)

SortSlice(s) == InsertionSortFrom(s, 2)

\* GetLatestVersion
GetLatestVersion(versions) ==
  IF Len(versions) = 0 THEN ""
  ELSE IF Len(versions) = 1 THEN versions[1]
  ELSE SortSlice(versions)[1]

Writable == "w"

\* the candidate roots of the version-selection calls
AutoRoots == GetCandidateRootFolders(<<"ro1">>, Writable)

\* getHighestInstalledVersion: the versions whose entry exists under some
\* candidate root, in the order of the list, and the latest of them
GetHighestInstalledVersion(versions, where) ==
  LET found(v) == ResolveExistingPath(AutoRoots, where[v]).found
      installedVersions == SelectSeq(versions, found)
  IN IF Len(installedVersions) = 0 THEN "" ELSE GetLatestVersion(installedVersions)

Strategies == {"PreferInstalled", "LatestAvailable", "OnlyInstalled"}

\* GetToolAuto: the switch on the strategy; "" stands for the error return
SelectVersion(strategy, versions, where) ==
  CASE strategy = "PreferInstalled" ->
         LET installedVersion == GetHighestInstalledVersion(versions, where)
         IN IF installedVersion # "" THEN installedVersion
            ELSE GetLatestVersion(versions)
    [] strategy = "LatestAvailable" -> GetLatestVersion(versions)
    [] strategy = "OnlyInstalled" -> GetHighestInstalledVersion(versions, where)

\* ------------------------------------------------------- staged extraction
\* A folder is the set of the files below it, each a path of names relative to
\* the folder; a directory is there when a file lies below it.
NoDir == [exists |-> FALSE, files |-> {}]

Dir(t) == [exists |-> TRUE, files |-> t]

\* the top level of a tree, as os.ReadDir lists it
TopLevel(t) == {p[1] : p \in t}

IsDir(t, n) == \E p \in t : p[1] = n /\ Len(p) > 1

SubTree(t, n) == {Tail(p) : p \in {q \in t : q[1] = n /\ Len(q) > 1}}

UsedSingleDirNever(t) == FALSE

\* extractDownloadedFile: len(entries) == 1 && entries[0].IsDir()
UsedSingleDir(t) == Cardinality(TopLevel(t)) = 1 /\ \A n \in TopLevel(t) : IsDir(t, n)

SupportedFormats == {".zip", ".tar.gz", ".tar.xz"}

RemoveAllKeeps(stuck, d) == d

\* os.RemoveAll(tmpExtractFolder): the folder is gone unless the removal fails
RemoveAll(stuck, d) == IF stuck THEN d ELSE NoDir

\* what an extraction that fails on the way has written to the staging folder
Partial(t) == IF t = {} THEN {} ELSE {CHOOSE p \in t : TRUE}

\* extractDownloadedFile(path, toolFolder) on a staging folder in.staging and a
\* target folder in.target, for an archive in.archive with suffix in.format;
\* in.fail names the step that fails, in.stuck says that removing the staging
\* folder fails.  The result is the error and the two folders on return.
ExtractDownloadedFile(in) ==
  IF in.staging.exists /\ RemoveAll(in.stuck, in.staging).exists
  THEN [err |-> "failed to clean up temporary folder",
        staging |-> in.staging, target |-> in.target]
  ELSE IF in.fail = "mkdir"
  THEN [err |-> "failed to create temporary extraction folder",
        staging |-> NoDir, target |-> in.target]
  ELSE IF in.format \notin SupportedFormats
  THEN [err |-> "unsupported file format", staging |-> Dir({}), target |-> in.target]
  ELSE IF in.fail = "extract"
  THEN [err |-> "extract",
        staging |-> RemoveAll(in.stuck, Dir(Partial(in.archive))),
        target |-> in.target]
  ELSE LET usedSingleDir == UsedSingleDir(in.archive)
           sourceToMove ==
             IF usedSingleDir
             THEN SubTree(in.archive, CHOOSE n \in TopLevel(in.archive) : TRUE)
             ELSE in.archive
       IN IF in.target.exists /\ in.fail = "rmTarget"
          THEN [err |-> "failed to remove existing target folder",
                staging |-> RemoveAll(in.stuck, Dir(in.archive)),
                target |-> in.target]
          ELSE IF in.fail = "rename"
          THEN [err |-> "failed to move extracted files to target folder",
                staging |-> RemoveAll(in.stuck, Dir(in.archive)),
                target |-> NoDir]
          ELSE [err |-> "",
                staging |-> IF usedSingleDir THEN RemoveAll(in.stuck, Dir({})) ELSE NoDir,
                target |-> Dir(sourceToMove)]

\* ------------------------------------------------- calls of pure functions
RoNames == {"ro1", "ro2", "ro3"}

MaxRoRoots == 2

MaxVersions == 3

SeqsUpTo(S, n) == UNION {[1..k -> S] : k \in 0..n}

Range(s) == {s[k] : k \in 1..Len(s)}

\* a list of read-only roots as configured, and the roots that hold the entry
ResolveInputs ==
  {[op |-> "resolve", ro |-> r, has |-> h] :
     r \in SeqsUpTo(RoNames, MaxRoRoots), h \in SUBSET (RoNames \cup {Writable})}

\* the versions of one tool in the order the map iteration yields them, the
\* roots that hold each version, and the strategy
VersionLists == {vs \in SeqsUpTo(Versions, MaxVersions) : Cardinality(Range(vs)) = Len(vs)}

AutoInputs ==
  UNION {{[op |-> "auto", strategy |-> st, versions |-> vs, where |-> wh] :
            st \in Strategies, wh \in [Range(vs) -> SUBSET Range(AutoRoots)]} :
         vs \in VersionLists}

\* the version strings handed to GetLatestVersion and compareVersions: those
\* of the catalog, a prerelease and a build of 9.0.0
VersionStrings == Versions \cup {"9.0.0-rc1", "9.0.0+b1"}

LatestInputs ==
  {[op |-> "latest", versions |-> vs] : vs \in SeqsUpTo(VersionStrings, MaxVersions)}

CompareInputs ==
  {[op |-> "compare", v1 |-> a, v2 |-> b] : a \in VersionStrings, b \in VersionStrings}

\* the archives handed to extractDownloadedFile: several top-level entries, a
\* single top-level file, a single top-level directory, a single directory
\* inside a single directory, a directory next to a file, an empty archive
ArchiveTrees ==
  {{<<"tool">>, <<"lib", "x">>},
   {<<"tool">>},
   {<<"pkg", "tool">>, <<"pkg", "lib", "x">>},
   {<<"a", "b", "tool">>},
   {<<"pkg", "tool">>, <<"README">>},
   {}}

ExtractFaults == {"none", "mkdir", "extract", "rmTarget", "rename"}

\* a stale staging folder of an earlier run, or none; the version folder that
\* holds the downloaded archive, or none
ExtractInputs ==
  {[op |-> "extract", staging |-> st, target |-> tg, archive |-> a,
    format |-> f, fail |-> x, stuck |-> k] :
     st \in {NoDir, Dir({<<"old">>})},
     tg \in {NoDir, Dir({<<"download">>})},
     a \in ArchiveTrees, f \in SupportedFormats, x \in ExtractFaults,
     k \in BOOLEAN}

\* the size HEAD reported (0: none) and the size of the local temp file (0: no
\* file) at the start of an attempt
AttemptInputs ==
  {[op |-> "attempt", known |-> k, existing |-> e] : k \in 0..FileSize, e \in 0..FileSize}

PureConfigs == {Config(TRUE, PlainLayout, "ok", <<"good">>, FALSE)}

InitPure ==
  /\ InitCore(PureConfigs)
  /\ fin \in ResolveInputs \cup AutoInputs \cup LatestInputs \cup CompareInputs
             \cup ExtractInputs \cup AttemptInputs
  /\ fout = NoCall

\* BaseTool.GetToolFolder
GetToolFolder ==
  /\ fin.op = "resolve"
  /\ fout = NoCall
  /\ LET r == ResolveExistingPath(GetCandidateRootFolders(fin.ro, Writable), fin.has)
     IN fout' = [op |-> "resolve", folder |-> IF r.found THEN r.folder ELSE ""]
  /\ UNCHANGED <<engine, web, chans, blog, side, fin>>

\* GetToolAuto for a tool without development override: no version of the
\* tool in the catalog is an error, and so is no selected version
GetToolAuto ==
  /\ fin.op = "auto"
  /\ fout = NoCall
  /\ LET selectedVersion == SelectVersion(fin.strategy, fin.versions, fin.where)
     IN fout' = [op |-> "auto",
                 err |-> (Len(fin.versions) = 0 \/ selectedVersion = ""),
                 version |-> IF Len(fin.versions) = 0 THEN "" ELSE selectedVersion]
  /\ UNCHANGED <<engine, web, chans, blog, side, fin>>

\* config.GetLatestVersion
LatestVersion ==
  /\ fin.op = "latest"
  /\ fout = NoCall
  /\ fout' = [op |-> "latest", version |-> GetLatestVersion(fin.versions)]
  /\ UNCHANGED <<engine, web, chans, blog, side, fin>>

\* config.compareVersions
Compare ==
  /\ fin.op = "compare"
  /\ fout = NoCall
  /\ fout' = [op |-> "compare", result |-> CompareVersions(fin.v1, fin.v2)]
  /\ UNCHANGED <<engine, web, chans, blog, side, fin>>

\* extractDownloadedFile
Extract ==
  /\ fin.op = "extract"
  /\ fout = NoCall
  /\ LET r == ExtractDownloadedFile(fin)
     IN fout' = [op |-> "extract", err |-> r.err, staging |-> r.staging,
                 target |-> r.target]
  /\ UNCHANGED <<engine, web, chans, blog, side, fin>>

\* attemptDownload from shouldDownload to the request performDownload builds
AttemptDownload ==
  /\ fin.op = "attempt"
  /\ fout = NoCall
  /\ LET plan == AttemptPlan(fin.known, fin.existing)
     IN fout' = [op |-> "attempt", deleted |-> plan.deleted, get |-> plan.get,
                 range |-> plan.range]
  /\ UNCHANGED <<engine, web, chans, blog, side, fin>>

NextPure ==
  \/ GetToolFolder
  \/ GetToolAuto
  \/ LatestVersion
  \/ Compare
  \/ Extract
  \/ AttemptDownload

SpecPure == InitPure /\ [][NextPure]_vars

\* ------------------------------------------------------------ web handlers
IsInstallingNever == FALSE

\* handleInstall: activeInstalls[installKey] read under activeInstallsMu
IsInstalling == activeInstalls

\* handleInstall of HTTP client p: 409 when the key is in activeInstalls, else
\* the key is added, the install goroutine is started and 202 is answered
HandleInstall(p) ==
  /\ Ops < MaxOps
  /\ pc[p] = "idle"
  /\ task[p] = "none"
  /\ IF IsInstalling
     THEN /\ resp' = [resp EXCEPT ![p] = "409"]
          /\ UNCHANGED <<activeInstalls, task>>
     ELSE /\ activeInstalls' = TRUE
          /\ task' = [task EXCEPT ![p] = "spawned"]
          /\ resp' = [resp EXCEPT ![p] = "202"]
  /\ UNCHANGED <<engine, side, fin, fout, connected, chans, got, blog>>

\* the goroutine of handleInstall: webuiAdapter.InstallTool calls tool.Install
TaskInstall(p) ==
  /\ task[p] = "spawned"
  /\ InstallCall(p)
  /\ task' = [task EXCEPT ![p] = "running"]
  /\ UNCHANGED <<activeInstalls, resp, connected, got, side, fin, fout>>

\* the goroutine of handleInstall after InstallTool returned: the failed
\* message on an error, the deferred delete from activeInstalls
TaskEnd(p) ==
  /\ task[p] = "running"
  /\ pc[p] = "idle"
  /\ IF ret[p] # "nil"
     THEN Broadcast(EvPlain("failed"))
     ELSE UNCHANGED <<chans, blog>>
  /\ activeInstalls' = FALSE
  /\ task' = [task EXCEPT ![p] = "none"]
  /\ UNCHANGED <<engine, side, fin, fout, resp, connected, got>>

\* handleSSE: the client channel is created and registered
SSEConnect(c) ==
  /\ c \notin connected
  /\ got[c] = <<>>
  /\ connected' = connected \cup {c}
  /\ chans' = [chans EXCEPT ![c] = <<>>]
  /\ UNCHANGED <<engine, side, fin, fout, activeInstalls, task, resp, got, blog>>

\* handleSSE: one message is taken from the channel and written to the client
SSERead(c) ==
  /\ c \in connected \cap Readers
  /\ chans[c] # <<>>
  /\ got' = [got EXCEPT ![c] = Append(@, Head(chans[c]).seq)]
  /\ chans' = [chans EXCEPT ![c] = Recv(@)]
  /\ UNCHANGED <<engine, side, fin, fout, activeInstalls, task, resp, connected, blog>>

\* ------------------------------------- operations on two versions of a tool
MaxKeyCalls == 3

\* generateToolFolderPath: one folder per version under the writable root
FolderOf(v) == "tool/" \o v

\* BaseTool.GetToolFolder: the folder whose entry path exists, "" when none does
GetToolFolderOf(v) == IF verInstalled[v] THEN FolderOf(v) ELSE KeyEmpty

\* the operations that hold the mutex of the folder string
KeyHolders(mu) ==
  {q \in KeyProcs : keyOp[q].mu = mu /\ keyOp[q].pc \in {"download", "stat", "unlock"}}

\* getToolMutex(folder).TryLock of an operation of kind on version v: on
\* failure the call returns ErrToolBusy; blocker is the version the holder
\* works on
KeyTryLock(k, kind, v, mu, held, busy) ==
  /\ keyOp[k].pc = "idle"
  /\ keyCalls < MaxKeyCalls
  /\ keyCalls' = keyCalls + 1
  /\ IF mu \in keyLocks
     THEN /\ keyOp' = [keyOp EXCEPT ![k] =
                         [pc |-> busy, kind |-> kind, ver |-> v, mu |-> mu, ret |-> "busy",
                          blocker |-> keyOp[CHOOSE q \in KeyHolders(mu) : TRUE].ver]]
          /\ UNCHANGED keyLocks
     ELSE /\ keyOp' = [keyOp EXCEPT ![k] =
                         [pc |-> held, kind |-> kind, ver |-> v, mu |-> mu, ret |-> "none",
                          blocker |-> "none"]]
          /\ keyLocks' = keyLocks \cup {mu}
  /\ UNCHANGED <<core, server, instances, hub, verInstalled>>

\* DownloadedTool.Install: the mutex of the writable version folder
KeyInstall(k, v) == KeyTryLock(k, "install", v, FolderOf(v), "download", "done")

\* BaseTool.Uninstall: the mutex of GetToolFolder(); after ErrToolBusy
\* DownloadedTool.Uninstall goes on to the writable folder
KeyUninstall(k, v) == KeyTryLock(k, "uninstall", v, GetToolFolderOf(v), "stat", "writable")

\* Install: downloadTool ends with the entry path in place or with an error
KeyDownloadTool(k) ==
  /\ keyOp[k].pc = "download"
  /\ \E ok \in BOOLEAN :
       /\ verInstalled' = [verInstalled EXCEPT ![keyOp[k].ver] = @ \/ ok]
       /\ keyOp' = [keyOp EXCEPT ![k].pc = "unlock",
                                 ![k].ret = IF ok \/ verInstalled[keyOp[k].ver]
                                            THEN "nil" ELSE "err"]
  /\ UNCHANGED <<core, server, instances, hub, keyLocks, keyCalls>>

\* BaseTool.Uninstall: nothing to do when the folder does not exist, else the
\* folder is renamed to a trash folder and removed
KeyUninstallBase(k) ==
  /\ keyOp[k].pc = "stat"
  /\ verInstalled' = [verInstalled EXCEPT ![keyOp[k].ver] =
                        IF keyOp[k].mu = KeyEmpty THEN @ ELSE FALSE]
  /\ keyOp' = [keyOp EXCEPT ![k].pc = "unlock", ![k].ret = "nil"]
  /\ UNCHANGED <<core, server, instances, hub, keyLocks, keyCalls>>

\* defer mu.Unlock()
KeyUnlock(k) ==
  /\ keyOp[k].pc = "unlock"
  /\ keyLocks' = keyLocks \ {keyOp[k].mu}
  /\ keyOp' = [keyOp EXCEPT ![k].pc = IF keyOp[k].kind = "uninstall"
                                      THEN "writable" ELSE "done"]
  /\ UNCHANGED <<core, server, instances, hub, verInstalled, keyCalls>>

\* DownloadedTool.Uninstall: the writable version folder is removed
KeyUninstallWritable(k) ==
  /\ keyOp[k].pc = "writable"
  /\ verInstalled' = [verInstalled EXCEPT ![keyOp[k].ver] = FALSE]
  /\ keyOp' = [keyOp EXCEPT ![k].pc = "done"]
  /\ UNCHANGED <<core, server, instances, hub, keyLocks, keyCalls>>

\* the call returns; the caller may start another one
KeyReturn(k) ==
  /\ keyOp[k].pc = "done"
  /\ keyCalls < MaxKeyCalls
  /\ keyOp' = [keyOp EXCEPT ![k].pc = "idle"]
  /\ UNCHANGED <<core, server, instances, hub, verInstalled, keyLocks, keyCalls>>

NextKeys ==
  \/ \E k \in KeyProcs, v \in KeyVersions : KeyInstall(k, v)
  \/ \E k \in KeyProcs, v \in KeyVersions : KeyUninstall(k, v)
  \/ \E k \in KeyProcs : KeyDownloadTool(k)
  \/ \E k \in KeyProcs : KeyUninstallBase(k)
  \/ \E k \in KeyProcs : KeyUnlock(k)
  \/ \E k \in KeyProcs : KeyUninstallWritable(k)
  \/ \E k \in KeyProcs : KeyReturn(k)

SpecKeys == InitWith(PureConfigs) /\ [][NextKeys]_vars

\* ------------------------------------------- SSE client set, step by step
MaxHubOps == 3

\* what the steps of handleSSE and broadcastProgress leave alone
offHub == <<engine, activeInstalls, task, resp, blog, fin, fout, server, instances, keyed>>

DeleteClientKeeps(set, c) == set

\* handleSSE, deferred: delete(sseClients, clientChan)
DeleteClient(set, c) == set \ {c}

\* handleSSE: make(chan ProgressMessage, 10); sseClientsMu.Lock()
HandleSSELock(c) ==
  /\ sse[c] = "idle"
  /\ hubOps < MaxHubOps
  /\ ~sseClientsMu.w /\ sseClientsMu.r = {}
  /\ sseClientsMu' = [sseClientsMu EXCEPT !.w = TRUE]
  /\ sse' = [sse EXCEPT ![c] = "register"]
  /\ chans' = [chans EXCEPT ![c] = <<>>]
  /\ hubOps' = hubOps + 1
  /\ UNCHANGED <<offHub, connected, got, closed, bc, sentOnClosed>>

\* handleSSE: sseClients[clientChan] = true; sseClientsMu.Unlock()
HandleSSERegister(c) ==
  /\ sse[c] = "register"
  /\ connected' = connected \cup {c}
  /\ sseClientsMu' = [sseClientsMu EXCEPT !.w = FALSE]
  /\ sse' = [sse EXCEPT ![c] = "loop"]
  /\ UNCHANGED <<offHub, chans, got, closed, bc, sentOnClosed, hubOps>>

\* handleSSE: case msg := <-clientChan, written to the response
HandleSSERecv(c) ==
  /\ sse[c] = "loop"
  /\ chans[c] # <<>>
  /\ got' = [got EXCEPT ![c] = Append(@, Head(chans[c]).seq)]
  /\ chans' = [chans EXCEPT ![c] = Recv(@)]
  /\ UNCHANGED <<offHub, connected, hub>>

\* handleSSE: the request context is done or a write failed; the function
\* returns and its deferred function starts
HandleSSEReturn(c) ==
  /\ sse[c] = "loop"
  /\ sse' = [sse EXCEPT ![c] = "cleanup"]
  /\ UNCHANGED <<offHub, connected, chans, got, closed, sseClientsMu, bc, sentOnClosed,
                 hubOps>>

\* handleSSE, deferred: sseClientsMu.Lock()
HandleSSECleanupLock(c) ==
  /\ sse[c] = "cleanup"
  /\ ~sseClientsMu.w /\ sseClientsMu.r = {}
  /\ sseClientsMu' = [sseClientsMu EXCEPT !.w = TRUE]
  /\ sse' = [sse EXCEPT ![c] = "delete"]
  /\ UNCHANGED <<offHub, connected, chans, got, closed, bc, sentOnClosed, hubOps>>

\* handleSSE, deferred: delete(sseClients, clientChan); sseClientsMu.Unlock()
HandleSSEDelete(c) ==
  /\ sse[c] = "delete"
  /\ connected' = DeleteClient(connected, c)
  /\ sseClientsMu' = [sseClientsMu EXCEPT !.w = FALSE]
  /\ sse' = [sse EXCEPT ![c] = "close"]
  /\ UNCHANGED <<offHub, chans, got, closed, bc, sentOnClosed, hubOps>>

\* handleSSE, deferred: close(clientChan)
HandleSSEClose(c) ==
  /\ sse[c] = "close"
  /\ closed' = closed \cup {c}
  /\ sse' = [sse EXCEPT ![c] = "gone"]
  /\ UNCHANGED <<offHub, connected, chans, got, sseClientsMu, bc, sentOnClosed, hubOps>>

\* broadcastProgress: sseClientsMu.RLock(); the range starts over the set
BroadcastRLock(b) ==
  /\ bc[b].pc = "idle"
  /\ hubOps < MaxHubOps
  /\ ~sseClientsMu.w
  /\ sseClientsMu' = [sseClientsMu EXCEPT !.r = @ \cup {b}]
  /\ bc' = [bc EXCEPT ![b] = [pc |-> "range", todo |-> connected, msg |-> hubOps + 1]]
  /\ hubOps' = hubOps + 1
  /\ UNCHANGED <<offHub, connected, chans, got, closed, sse, sentOnClosed>>

\* broadcastProgress: one iteration, a non-blocking send; a send on a closed
\* channel panics
BroadcastSend(b) ==
  /\ bc[b].pc = "range"
  /\ \E c \in bc[b].todo :
       /\ bc' = [bc EXCEPT ![b].todo = @ \ {c}]
       /\ IF c \in closed
          THEN /\ sentOnClosed' = TRUE
               /\ UNCHANGED chans
          ELSE /\ chans' = [chans EXCEPT ![c] = ChanSend(@, [seq |-> bc[b].msg])]
               /\ UNCHANGED sentOnClosed
  /\ UNCHANGED <<offHub, connected, got, closed, sseClientsMu, sse, hubOps>>

\* broadcastProgress: the range is over; deferred sseClientsMu.RUnlock()
BroadcastRUnlock(b) ==
  /\ bc[b].pc = "range"
  /\ bc[b].todo = {}
  /\ sseClientsMu' = [sseClientsMu EXCEPT !.r = @ \ {b}]
  /\ bc' = [bc EXCEPT ![b].pc = "idle"]
  /\ UNCHANGED <<offHub, connected, chans, got, closed, sse, sentOnClosed, hubOps>>

NextHub ==
  \/ \E c \in Clients : HandleSSELock(c)
  \/ \E c \in Clients : HandleSSERegister(c)
  \/ \E c \in Clients : HandleSSERecv(c)
  \/ \E c \in Clients : HandleSSEReturn(c)
  \/ \E c \in Clients : HandleSSECleanupLock(c)
  \/ \E c \in Clients : HandleSSEDelete(c)
  \/ \E c \in Clients : HandleSSEClose(c)
  \/ \E b \in Broadcasters : BroadcastRLock(b)
  \/ \E b \in Broadcasters : BroadcastSend(b)
  \/ \E b \in Broadcasters : BroadcastRUnlock(b)

SpecHub == InitWith(PureConfigs) /\ [][NextHub]_vars

\* ----------------------------------------------------- web server lifecycle
MaxServerCalls == 5

\* the ports handed to Start: 0 asks for a free port
RequestedPorts == {0, 8080}

\* listener.Addr().(*net.TCPAddr).Port: the requested port, or the free port
\* the system chose
BoundPort(port) == IF port = 0 THEN 49152 ELSE port

\* WebUIServer.Start under s.mu: the guard, net.Listen (which may fail), the
\* port, the new http.Server and the go statement
Start(port) ==
  /\ srvCalls < MaxServerCalls
  /\ srvCalls' = srvCalls + 1
  /\ IF srvStatus \in {StatusRunning, StatusStarting}
     THEN /\ srvRet' = "err"
          /\ UNCHANGED <<srvStatus, srvPort, srvLoop, srvStale>>
     ELSE \/ /\ srvStatus' = StatusStopped
             /\ srvRet' = "err"
             /\ UNCHANGED <<srvPort, srvLoop, srvStale>>
          \/ /\ srvStatus' = StatusStarting
             /\ srvPort' = BoundPort(port)
             /\ srvLoop' = "spawned"
             /\ srvRet' = "nil"
             /\ UNCHANGED srvStale
  /\ UNCHANGED <<core, more, instances>>

\* the goroutine of Start: s.status = StatusRunning under s.mu
ServeLoopRunning ==
  /\ srvLoop = "spawned"
  /\ srvStatus' = StatusRunning
  /\ srvLoop' = "ready"
  /\ UNCHANGED <<core, more, instances, srvPort, srvStale, srvRet, srvCalls>>

\* the goroutine of Start: the call of s.server.Serve(s.listener)
ServeLoopServe ==
  /\ srvLoop = "ready"
  /\ srvLoop' = "serving"
  /\ UNCHANGED <<core, more, instances, srvStatus, srvPort, srvStale, srvRet,
                 srvCalls>>

\* the goroutine of Start: Serve returned an error other than ErrServerClosed
ServeLoopFails ==
  /\ srvLoop = "serving"
  /\ srvStatus' = StatusStopped
  /\ srvLoop' = "none"
  /\ UNCHANGED <<core, more, instances, srvPort, srvStale, srvRet, srvCalls>>

\* a goroutine of an earlier Start calls Serve after Stop: it reads s.server
\* and s.listener without s.mu, so it serves the closed server and ends, or
\* the server of a later Start, and that Serve may fail
StaleServe ==
  /\ srvStale
  /\ srvStale' = FALSE
  /\ \/ UNCHANGED srvStatus
     \/ /\ srvLoop # "none"
        /\ srvStatus' = StatusStopped
  /\ UNCHANGED <<core, more, instances, srvPort, srvLoop, srvRet, srvCalls>>

\* WebUIServer.Stop under s.mu: the guard, s.server.Close (which may fail),
\* the status and the port; Serve of the closed server returns ErrServerClosed
Stop ==
  /\ srvCalls < MaxServerCalls
  /\ srvCalls' = srvCalls + 1
  /\ IF srvStatus # StatusRunning
     THEN /\ srvRet' = "err"
          /\ UNCHANGED <<srvStatus, srvPort, srvLoop, srvStale>>
     ELSE /\ srvStatus' = StatusStopped
          /\ srvLoop' = "none"
          /\ srvStale' = (srvStale \/ srvLoop = "ready")
          /\ \/ /\ srvRet' = "err"
                /\ UNCHANGED srvPort
             \/ /\ srvRet' = "nil"
                /\ srvPort' = 0
  /\ UNCHANGED <<core, more, instances>>

NextServer ==
  \/ \E port \in RequestedPorts : Start(port)
  \/ ServeLoopRunning
  \/ ServeLoopServe
  \/ ServeLoopFails
  \/ StaleServe
  \/ Stop

SpecServer == InitWith(PureConfigs) /\ [][NextServer]_vars

\* -------------------------------------------------- GetToolWithVersion
MaxGetCalls == 2

StoreAlways(cached, t) == t

\* GetToolWithVersion under toolMu.Lock: the cached handle when there is one,
\* else the new handle, which is stored
StoreIfAbsent(cached, t) == IF cached # NoTool THEN cached ELSE t

\* the call of caller c returns handle h
GetReturn(c, h) ==
  /\ getCall' = [getCall EXCEPT ![c].pc = "done", ![c].tool = h]
  /\ returned' = returned \cup {h}

\* GetToolWithVersion: the first read of toolInstances under toolMu.RLock
GetFirstCheck(c) ==
  /\ getCall[c].pc \in {"idle", "done"}
  /\ getCall[c].calls < MaxGetCalls
  /\ IF toolInstances # NoTool
     THEN /\ getCall' = [getCall EXCEPT ![c].pc = "done", ![c].tool = toolInstances,
                                        ![c].t = NoTool, ![c].calls = @ + 1]
          /\ returned' = returned \cup {toolInstances}
     ELSE /\ getCall' = [getCall EXCEPT ![c].pc = "second", ![c].tool = NoTool,
                                        ![c].t = NoTool, ![c].calls = @ + 1]
          /\ UNCHANGED returned
  /\ UNCHANGED <<core, more, server, toolInstances, created, pauseFlags, installing>>

\* GetToolWithVersion: getToolConfigByKey finds the key, the second read of
\* toolInstances under toolMu.RLock
GetSecondCheck(c) ==
  /\ getCall[c].pc = "second"
  /\ IF toolInstances # NoTool
     THEN GetReturn(c, toolInstances)
     ELSE /\ getCall' = [getCall EXCEPT ![c].pc = "create"]
          /\ UNCHANGED returned
  /\ UNCHANGED <<core, more, server, toolInstances, created, pauseFlags, installing>>

\* GetToolWithVersion: NewDownloadTool outside the lock
GetCreate(c) ==
  /\ getCall[c].pc = "create"
  /\ created' = created + 1
  /\ getCall' = [getCall EXCEPT ![c].pc = "store", ![c].t = created + 1]
  /\ UNCHANGED <<core, more, server, toolInstances, returned, pauseFlags, installing>>

\* GetToolWithVersion under toolMu.Lock: the third read, the store, the return
GetStore(c) ==
  /\ getCall[c].pc = "store"
  /\ toolInstances' = StoreIfAbsent(toolInstances, getCall[c].t)
  /\ GetReturn(c, StoreIfAbsent(toolInstances, getCall[c].t))
  /\ UNCHANGED <<core, more, server, created, pauseFlags, installing>>

\* webuiAdapter.PauseTool after GetToolWithVersion returned: dt.Pause()
PauseTool(c) ==
  /\ getCall[c].pc = "done"
  /\ getCall[c].tool \notin pauseFlags
  /\ pauseFlags' = pauseFlags \cup {getCall[c].tool}
  /\ UNCHANGED <<core, more, server, toolInstances, getCall, created, returned, installing>>

\* webuiAdapter.InstallTool after GetToolWithVersion returned: tool.Install()
InstallTool(c) ==
  /\ getCall[c].pc = "done"
  /\ getCall[c].tool \notin installing
  /\ installing' = installing \cup {getCall[c].tool}
  /\ UNCHANGED <<core, more, server, toolInstances, getCall, created, returned, pauseFlags>>

NextInstances ==
  \/ \E c \in Callers : GetFirstCheck(c)
  \/ \E c \in Callers : GetSecondCheck(c)
  \/ \E c \in Callers : GetCreate(c)
  \/ \E c \in Callers : GetStore(c)
  \/ \E c \in Callers : PauseTool(c)
  \/ \E c \in Callers : InstallTool(c)

SpecInstances == InitWith(PureConfigs) /\ [][NextInstances]_vars

\* --------------------------------------------------------------------- Next
Next ==
  \/ \E p \in Installers : InstallTryLock(p)
  \/ \E p \in Installers : InstallMarkActive(p)
  \/ \E p \in Installers : DownloadToolBegin(p)
  \/ \E p \in Installers : AttemptLoop(p)
  \/ \E p \in Installers : AttemptHead(p)
  \/ \E p \in Installers : PerformGet(p)
  \/ \E p \in Installers : ReadBody(p)
  \/ \E p \in Installers : ExtractIfNeeded(p)
  \/ \E p \in Installers : ExtractRemoveTarget(p)
  \/ \E p \in Installers : ExtractRename(p)
  \/ \E p \in Installers : PostInstall(p)
  \/ \E p \in Installers : InstallUnmark(p)
  \/ \E p \in Installers : InstallReturn(p)
  \/ \E u \in Uninstallers : UninstallTryLock(u)
  \/ \E u \in Uninstallers : UninstallBase(u)
  \/ \E u \in Uninstallers : UninstallWritable(u)
  \/ \E u \in Uninstallers : UninstallClearMeta(u)
  \/ \E u \in Uninstallers : UninstallRemoveMeta(u)
  \/ \E u \in Uninstallers : UninstallReturn(u)
  \/ Pause

Spec == Init /\ [][Next]_vars

\* Install and Pause only: no Uninstall is ever called
NextInstall ==
  \/ \E p \in Installers : InstallTryLock(p)
  \/ \E p \in Installers : InstallMarkActive(p)
  \/ \E p \in Installers : DownloadToolBegin(p)
  \/ \E p \in Installers : AttemptLoop(p)
  \/ \E p \in Installers : AttemptHead(p)
  \/ \E p \in Installers : PerformGet(p)
  \/ \E p \in Installers : ReadBody(p)
  \/ \E p \in Installers : ExtractIfNeeded(p)
  \/ \E p \in Installers : ExtractRemoveTarget(p)
  \/ \E p \in Installers : ExtractRename(p)
  \/ \E p \in Installers : PostInstall(p)
  \/ \E p \in Installers : InstallUnmark(p)
  \/ \E p \in Installers : InstallReturn(p)
  \/ Pause

InitInstall == InitWith(Configs \cup MirrorConfigs)

SpecInstall == InitInstall /\ [][NextInstall]_vars

\* Install and Pause with crashes of the process
NextCrash ==
  \/ NextInstall
  \/ Crash

SpecCrash == InitInstall /\ [][NextCrash]_vars

\* Install of an executable tool on every mount, installed in the read-only
\* root or not
ExecConfigs ==
  {Config(TRUE, PlainLayout, e, <<"good">>, r) : e \in ExecEnvs, r \in BOOLEAN}

InitExec == InitWith(ExecConfigs)

SpecExec == InitExec /\ [][NextInstall]_vars

\* Install on URL lists with an empty or an unparsable string, of a version in
\* the read-only root on a mount without exec support, of a raw file whose
\* name is the entry path, of an archive with an empty pathToEntry, with
\* crashes that leave a staging folder behind
EdgeConfigs ==
  {Config(TRUE, PlainLayout, "ok", u, FALSE) :
     u \in {<<"">>, <<"", "good">>, <<"badurl">>, <<"badurl", "good">>,
            <<"http404", "badurl">>}}
  \cup {Config(TRUE, PlainLayout, "noexec_notmp", <<"good">>, r) : r \in BOOLEAN}
  \cup {Config(FALSE, l, "ok", <<"good">>, FALSE) :
          l \in {[isArchive |-> FALSE, entry |-> "tempname"],
                 [isArchive |-> TRUE, entry |-> "folder"]}}

InitEdge == InitWith(EdgeConfigs)

SpecEdge == InitEdge /\ [][NextCrash]_vars

\* ------------------------------------------------------------ orphan sweeps
\* A path is its separator and the segments between separators: a leading
\* empty segment is an absolute path, another empty segment a doubled or
\* trailing separator.
VersionSegs == <<"linux", "amd64", "tool", "1.0">>

\* generateToolFolderPath: fmt.Sprintf("%s/%s/%s/%s/%s", rootFolder, ...)
GenerateToolFolderPath(root) == [sep |-> "/", segs |-> root \o VersionSegs]

\* filepath.Clean on the segments after the first: empty and "." segments
\* are dropped, ".." removes the segment before it
RECURSIVE CleanSegs(_, _)
CleanSegs(segs, acc) ==
  IF segs = <<>> THEN acc
  ELSE LET h == Head(segs)
       IN IF h = "" \/ h = "." THEN CleanSegs(Tail(segs), acc)
          ELSE IF h = ".." /\ acc # <<>> /\ acc[Len(acc)] # ".."
          THEN CleanSegs(Tail(segs), SubSeq(acc, 1, Len(acc) - 1))
          ELSE CleanSegs(Tail(segs), Append(acc, h))

\* filepath.Join(root, os, arch, tool, version): the cleaned path with the
\* separator of the operating system
JoinPath(root, windows) ==
  LET all == root \o VersionSegs
      abs == all[1] = ""
  IN [sep |-> IF windows THEN "\\" ELSE "/",
      segs |-> IF abs THEN <<"">> \o CleanSegs(Tail(all), <<>>)
               ELSE CleanSegs(all, <<>>)]

\* the key of toolLocks under which a sweep looks up the mutex of the version
\* folder of the writable root
SweepKey(root, windows) ==
  IF JoinPath(root, windows) = GenerateToolFolderPath(root) THEN KeyW ELSE KeyJoin

\* spellings of the writable root given to SetRootFolder
RootSpellings ==
  {<<"tools">>, <<".", "tools">>, <<"tools", "">>,
   <<"", "data", "tools">>, <<"", "data", "", "tools">>}

\* one sweep of the writable root: the root as configured, the operating
\* system, and whether the version is in the allowed set
SweepInputs ==
  {[op |-> "sweep", root |-> r, windows |-> w, allowed |-> a] :
     r \in RootSpellings, w \in BOOLEAN, a \in BOOLEAN}

\* DeleteUnknownToolsInRoot / DeleteAllExceptToolsInRoot at the version folder
\* of the tool: kept when allowed, skipped when its mutex is held, else removed
Sweep ==
  /\ fin.op = "sweep"
  /\ fout = NoCall
  /\ folder
  /\ IF ~fin.allowed /\ TryLock(SweepKey(fin.root, fin.windows))
     THEN /\ folder' = FALSE
          /\ tmpFile' = -1
          /\ tmpBad' = FALSE
          /\ extracted' = FALSE
          /\ fout' = [op |-> "sweep", deleted |-> TRUE]
     ELSE /\ fout' = [op |-> "sweep", deleted |-> FALSE]
          /\ UNCHANGED <<folder, tmpFile, tmpBad, extracted>>
  /\ UNCHANGED <<cfg, web, chans, blog, side, fin, staging, roEntry, roModified, tmpCopy, sidecar,
                 metadata, paused, locks, active, pc, loc, uloc, events, reqs, ret, calls,
                 transferred, pauseIssued>>

SweepConfigs == {Config(FALSE, PlainLayout, "ok", <<"good">>, FALSE)}

InitSweep ==
  /\ InitCore(SweepConfigs)
  /\ fin \in SweepInputs
  /\ fout = NoCall

NextSweep ==
  \/ NextInstall
  \/ Sweep

SpecSweep == InitSweep /\ [][NextSweep]_vars

\* Install from Go code and through POST /api/install, and Pause
NextHttp ==
  \/ NextInstall
  \/ \E p \in Installers : HandleInstall(p)
  \/ \E p \in Installers : TaskInstall(p)
  \/ \E p \in Installers : TaskEnd(p)

\* the plain archive on a mount that allows execution and on one that does not
HttpConfigs ==
  {Config(TRUE, PlainLayout, e, <<"good">>, FALSE) : e \in {"ok", "noexec_notmp"}}

InitHttp == InitWith(HttpConfigs)

SpecHttp == InitHttp /\ [][NextHttp]_vars

\* one HTTP client installing, the SSE clients
WebClient == "i1"

SSEConfigs == {Config(TRUE, PlainLayout, "ok", <<"http404", "good">>, FALSE)}

InitSSE == InitWith(SSEConfigs)

NextSSE ==
  \/ HandleInstall(WebClient)
  \/ TaskInstall(WebClient)
  \/ TaskEnd(WebClient)
  \/ InstallMarkActive(WebClient)
  \/ DownloadToolBegin(WebClient)
  \/ AttemptLoop(WebClient)
  \/ AttemptHead(WebClient)
  \/ PerformGet(WebClient)
  \/ ReadBody(WebClient)
  \/ ExtractIfNeeded(WebClient)
  \/ ExtractRemoveTarget(WebClient)
  \/ ExtractRename(WebClient)
  \/ PostInstall(WebClient)
  \/ InstallUnmark(WebClient)
  \/ InstallReturn(WebClient)
  \/ \E c \in Clients : SSEConnect(c)
  \/ \E c \in Clients : SSERead(c)

SpecSSE == InitSSE /\ [][NextSSE]_vars

TypeOK ==
  /\ cfg \in Configs \cup MirrorConfigs \cup ExecConfigs \cup EdgeConfigs
  /\ tmpCopy \in {"none", "folder", "copy"}
  /\ cfg.execEnv \in ExecEnvs
  /\ \A k \in 1..NUrls : Urls[k] \in Profiles
  /\ folder \in BOOLEAN
  /\ tmpFile \in -1..FileSize
  /\ tmpBad \in BOOLEAN
  /\ staging \in BOOLEAN
  /\ (~folder => tmpFile = -1 /\ ~extracted)
  /\ paused \in {0, 1}
  /\ transferred >= 0
  /\ activeInstalls \in BOOLEAN
  /\ task \in [Installers -> {"none", "spawned", "running"}]
  /\ resp \in [Installers -> {"none", "202", "409"}]
  /\ connected \subseteq Clients
  /\ \A c \in Clients : Len(chans[c]) <= ChanCap

\* ------------------------------------------------------------------ helpers
Statuses(p) == {events[p][k].status : k \in 1..Len(events[p])}

LastStatus(p) == IF events[p] = <<>> THEN "" ELSE events[p][Len(events[p])].status

\* the call of p is between its mutex acquisition and its return
InOperation(p) ==
  IF p \in Installers THEN pc[p] # "idle"
  ELSE pc[p] # "idle" /\ uloc[p].acquired

SidecarIsZero == IF sidecar = None THEN TRUE ELSE sidecar[1] = ZeroDP

\* ------------------------------------------------------------------- claims

\* C1: for the key, at most one Install or Uninstall is between its mutex
\* acquisition and its return at any instant, installed or not.
C1_AtMostOneOperation == Cardinality({p \in Procs : InOperation(p)}) <= 1

\* C2: an Uninstall invoked while an Install of the key is in progress and the
\* entry file is not present returns ErrToolBusy and leaves the writable
\* version folder, the partial temp file and the sidecar as they were.
C2_UninstallDuringInstallIsBusy ==
  [][\A u \in Uninstallers :
       (uloc'[u].during /\ pc'[u] # pc[u]) =>
         /\ UNCHANGED <<folder, tmpFile, sidecar>>
         /\ (pc'[u] = "idle" => ret'[u] = "busy")]_vars

\* C3: no operation renames, deletes or writes anything under the read-only
\* root; a version found there stays there.
C3_ReadOnlyRootUntouched == ~roModified /\ (cfg.ro => roEntry)

\* C4: an Install called while another Install holds the mutex of the writable
\* folder returns ErrToolBusy in that step, emits no event and changes neither
\* the pause flag, the sidecar, the active registry nor the running Install.
C4_BusyInstallChangesNothing ==
  [][\A p \in Installers :
       (pc[p] = "idle" /\ calls'[p] # calls[p] /\ locks[KeyW] # Free) =>
         /\ ret'[p] = "busy"
         /\ UNCHANGED <<pc, events, paused, sidecar, metadata, active, locks, loc, disk,
                        reqs, transferred>>]_vars

C4_Witness ==
  \E p, q \in Installers :
    /\ ret[p] = "busy"
    /\ pc[p] = "idle"
    /\ pc[q] = "read"
    /\ Statuses(q) = {"trying", "downloading"}

\* C5: after an Install that returns nil with final status completed the
\* version resolves and the downloadProcess of the sidecar is the zero value.
C5_CompletedInstallResolves ==
  \A p \in Installers :
    (pc[p] = "unlock" /\ loc[p].pend = "nil" /\ LastStatus(p) = "completed") =>
      (DoesToolExist /\ SidecarIsZero)

\* C6: after an Uninstall that returns without error the entry file under the
\* writable version folder is gone and the sidecar is absent.
C6_UninstallLeavesNothing ==
  \A u \in Uninstallers :
    (pc[u] = "u_ret" /\ UninstallResult(uloc[u].baseErr) = "nil") =>
      (~EntryW /\ sidecar = None)

\* C7: an Install of an installed version takes the fast path: no HEAD or GET,
\* no trying, downloading or extracting event, the installed tree unchanged,
\* and it returns with status completed.
C7_InstallOfInstalledIsNoOp ==
  /\ [](\A p \in Installers :
          loc[p].fast =>
            /\ reqs[p] = <<>>
            /\ Statuses(p) \cap {"trying", "downloading", "extracting"} = {}
            /\ (pc[p] = "unlock" => (LastStatus(p) = "completed" /\ loc[p].pend = "nil")))
  /\ [][\A p \in Installers :
          (loc[p].fast /\ pc'[p] # pc[p]) =>
            UNCHANGED <<folder, tmpFile, extracted, roEntry>>]_vars

\* C8: when a download is stopped by Pause, Install returns nil, the last
\* event is paused, no completed or failed event was emitted, the version is
\* not reported installed, and the mutex and the active entry are released.
C8_PausedInstallReturnsNil ==
  [][\A p \in Installers :
       (pc[p] = "unlock" /\ pc'[p] = "idle" /\ "paused" \in Statuses(p)) =>
         /\ ret'[p] = "nil"
         /\ LastStatus(p) = "paused"
         /\ Statuses(p) \cap {"completed", "failed"} = {}
         /\ ~DoesToolExist'
         /\ locks'[KeyW] = Free
         /\ ~active']_vars

\* C9: a Pause issued while the key is registered active and before the last
\* body read takes effect: no further chunk is read and the read loop of that
\* Install ends with the paused event.
C9_PauseTakesEffect ==
  [][pauseIssued =>
       /\ transferred' = transferred
       /\ \A p \in Installers :
            (pc[p] = "read" /\ pc'[p] # "read") => LastStatus(p)' = "paused"]_vars

\* C10: on mirrors that honour Range, with no Uninstall, every Install that is
\* not stopped by a Pause ends completed with the whole artifact in place, the
\* body bytes transferred over all attempts never exceed the size of the file,
\* and every GET asks for the bytes from the size of the local temp file on.
RangeHonoured ==
  /\ \A k \in 1..NUrls : Urls[k] \in {"good", "nolen"}
  /\ cfg.execEnv = "ok"
  /\ cfg.entry # "absent"
  /\ ~cfg.ro

ArtifactComplete == IF cfg.isArchive THEN folder /\ extracted ELSE tmpFile = FileSize

C10_PauseInstallConverges ==
  RangeHonoured =>
    /\ transferred <= FileSize
    /\ \A p \in Installers :
         /\ \A k \in 1..Len(reqs[p]) :
              reqs[p][k].m = "GET" => reqs[p][k].range = reqs[p][k].local
         /\ (pc[p] = "unlock" /\ "paused" \notin Statuses(p)) =>
              /\ LastStatus(p) = "completed"
              /\ loc[p].pend = "nil"
              /\ ArtifactComplete

\* C11: when some mirror of the list serves the valid artifact, every Install
\* that is not stopped by a Pause ends completed and returns nil, whatever the
\* earlier mirrors did and whatever temp file they left; failed is the final
\* status only when no mirror serves the artifact.
SomeMirrorValid == \E k \in 1..NUrls : Urls[k] = "good"

C11_ValidMirrorCompletes ==
  \A p \in Installers :
    (/\ pc[p] = "unlock"
     /\ "paused" \notin Statuses(p)
     /\ SomeMirrorValid
     /\ cfg.execEnv = "ok"
     /\ cfg.entry # "absent") =>
      (LastStatus(p) = "completed" /\ loc[p].pend = "nil")

\* C12: within one Install the trying events carry strictly increasing
\* attemptIndex values (so no URL is attempted twice), there is one HEAD per
\* trying event, the failed event of the attempt loop comes only after a
\* trying event for every URL of the list, and once an attempt has succeeded
\* no further attempt is started.
TryingAttempts(p) ==
  {events[p][k].attempt : k \in {j \in 1..Len(events[p]) : events[p][j].status = "trying"}}

LoopFailed(ev) == ev.status = "failed" /\ ev.attempts > 0

C17_DownloadedWithinTotal ==
  \A p \in Installers :
    \A k \in 1..Len(events[p]) :
      events[p][k].total > 0 =>
        (0 <= events[p][k].downloaded /\ events[p][k].downloaded <= events[p][k].total)

\* C18: after a crash during an Install, every Install of the key that is not
\* stopped by a Pause and has a mirror serving the artifact ends completed
\* with the whole tree installed and no staging folder left.
WorkingMirror == \E k \in 1..NUrls : Urls[k] \in {"good", "nolen", "chunked"}

C18_InstallAfterCrashCompletes ==
  \A p \in Installers :
    (/\ pc[p] = "unlock"
     /\ calls["crash"] > 0
     /\ "paused" \notin Statuses(p)
     /\ WorkingMirror
     /\ cfg.execEnv = "ok"
     /\ cfg.entry # "absent"
     /\ ~cfg.ro) =>
      /\ LastStatus(p) = "completed"
      /\ loc[p].pend = "nil"
      /\ ArtifactComplete
      /\ ~staging

\* C13: while the install goroutine started by a POST /api/install is alive,
\* every other POST for the key is answered 409 and starts nothing; a POST is
\* answered 202 only when no such goroutine exists, so at most one of them
\* exists at any time and of two concurrent requests exactly one gets 202.
HttpTasks == {p \in Installers : task[p] # "none"}

C13_HttpInstallExclusive ==
  /\ [](Cardinality(HttpTasks) <= 1 /\ (HttpTasks # {} => activeInstalls))
  /\ [][\A p \in Installers :
          (HttpTasks # {} /\ resp'[p] # resp[p]) =>
            (resp'[p] = "409" /\ task' = task /\ pc' = pc /\ calls' = calls)]_vars
  /\ [][\A p \in Installers :
          (task[p] = "none" /\ task'[p] = "spawned") =>
            (HttpTasks = {} /\ resp'[p] = "202")]_vars

C13_Witness ==
  \E p, q \in Installers :
    /\ p # q
    /\ task[p] = "running" /\ pc[p] = "read" /\ resp[p] = "202" /\ calls[p] = 1
    /\ task[q] = "none" /\ resp[q] = "409" /\ calls[q] = 0

\* C14: a POST /api/install is answered 202 only when no install of the key
\* is registered in the active-task registry, whoever started that install.
C14_HttpRejectsAnyActiveInstall ==
  [][\A p \in Installers :
       (task[p] = "none" /\ task'[p] = "spawned") => (~active /\ resp'[p] = "202")]_vars

\* C15: a broadcast is never held up by a client: a channel never holds more
\* than ChanCap messages, every event of an Install is broadcast whatever the
\* channels hold, and a broadcast appends the message to every registered
\* channel with a free slot and leaves the full channels as they are.
C15_BroadcastNeverBlocks ==
  /\ [](\A c \in Clients : Len(chans[c]) <= ChanCap)
  /\ [](\A p \in Installers : pc[p] = "post" => ENABLED PostInstall(p))
  /\ [][\A p \in Installers :
          (Len(events'[p]) > Len(events[p]) /\ connected # {}) =>
            Len(blog') = Len(blog) + 1]_vars
  /\ [][Len(blog') > Len(blog) =>
          \A c \in connected :
            chans'[c] = IF Len(chans[c]) < ChanCap
                        THEN Append(chans[c], [seq |-> Len(blog'), ev |-> blog'[Len(blog')]])
                        ELSE chans[c]]_vars

\* a stalled client with a full channel missed a message that another client
\* was given
C15_Witness ==
  \E c, d \in connected :
    /\ Len(chans[c]) = ChanCap
    /\ \E k \in 1..Len(got[d]) : got[d][k] > chans[c][ChanCap].seq

\* C16: what a client was given, followed by what waits in its channel, is
\* a subsequence of the broadcast messages: the sequence numbers increase
\* strictly and every message is the broadcast message of its number.
Delivered(c) == got[c] \o [k \in 1..Len(chans[c]) |-> chans[c][k].seq]

C19_ResolverFirstCandidate ==
  fout.op = "resolve" =>
    LET order == fin.ro \o <<Writable>>
        hits == {k \in 1..Len(order) : order[k] \in fin.has}
    IN /\ hits = {} => fout.folder = ""
       /\ hits # {} => fout.folder = order[CHOOSE k \in hits : \A j \in hits : k <= j]
       /\ (Writable \in fin.has /\ \E k \in 1..Len(fin.ro) : fin.ro[k] \in fin.has) =>
            fout.folder \in Range(fin.ro)

C19_Witness ==
  /\ fout.op = "resolve"
  /\ Len(fin.ro) = 2
  /\ fin.ro[1] \notin fin.has
  /\ fin.ro[2] \in fin.has
  /\ Writable \in fin.has
  /\ fout.folder = fin.ro[2]

\* C20: with the strategy PreferInstalled the selected version is an
\* installed version that no installed version exceeds, and when none is
\* installed a version of the catalog that no version of the catalog exceeds;
\* with OnlyInstalled it is an installed version that no installed version
\* exceeds, and the call fails when none is installed.
InstalledVersions == {v \in Range(fin.versions) : fin.where[v] # {}}

Highest(S, v) == v \in S /\ \A w \in S : CompareVersions(w, v) <= 0

C20_AutoVersionSelection ==
  fout.op = "auto" =>
    CASE fin.strategy = "PreferInstalled" ->
           IF InstalledVersions # {}
           THEN ~fout.err /\ Highest(InstalledVersions, fout.version)
           ELSE IF fin.versions # <<>>
                THEN ~fout.err /\ Highest(Range(fin.versions), fout.version)
                ELSE fout.err
      [] fin.strategy = "OnlyInstalled" ->
           IF InstalledVersions # {}
           THEN ~fout.err /\ Highest(InstalledVersions, fout.version)
           ELSE fout.err
      [] OTHER -> TRUE

\* C21: GetLatestVersion returns "" for the empty list and otherwise an
\* element of the list that no element exceeds under compareVersions, and
\* the same string for every ordering of the list; compareVersions orders
\* the semantic versions by SemVer precedence: 9.0.0-rc1 below 9.0.0, which
\* equals v9 and 9.0.0+b1, all below 10.0.0.
Orderings(s) ==
  {[k \in 1..Len(s) |-> s[f[k]]] :
     f \in {g \in [1..Len(s) -> 1..Len(s)] : \A i, j \in 1..Len(s) : g[i] = g[j] => i = j}}

SemVerRank(v) ==
  CASE v = "9.0.0-rc1" -> 1
    [] v \in {"9.0.0", "v9", "9.0.0+b1"} -> 2
    [] v = "10.0.0" -> 3
    [] OTHER -> 0

LatestIsHighest ==
  fout.op = "latest" =>
    IF fin.versions = <<>> THEN fout.version = ""
    ELSE Highest(Range(fin.versions), fout.version)

LatestIgnoresOrder ==
  fout.op = "latest" =>
    \A t \in Orderings(fin.versions) : GetLatestVersion(t) = fout.version

CompareIsSemVer ==
  fout.op = "compare" =>
    ((SemVerRank(fin.v1) > 0 /\ SemVerRank(fin.v2) > 0) =>
       fout.result = Sign(SemVerRank(fin.v1) - SemVerRank(fin.v2)))

C21_LatestVersionIsHighest == LatestIsHighest /\ LatestIgnoresOrder /\ CompareIsSemVer

C24_SingleTopLevelDirStripped ==
  (fout.op = "extract" /\ fout.err = "") =>
    LET top == TopLevel(fin.archive)
        oneDir == Cardinality(top) = 1 /\ \A p \in fin.archive : Len(p) > 1
    IN /\ fout.target.exists
       /\ oneDir => fout.target.files = {Tail(p) : p \in fin.archive}
       /\ ~oneDir => fout.target.files = fin.archive
       /\ fin.archive = {<<"a", "b", "tool">>} => fout.target.files = {<<"b", "tool">>}

C24_Witness ==
  /\ fout.op = "extract"
  /\ fout.err = ""
  /\ fin.archive = {<<"a", "b", "tool">>}
  /\ fout.target.files = {<<"b", "tool">>}

\* the attempt of installer p ends in this step with a failed extraction
ExtractionFails(p) ==
  /\ cfg.isArchive
  /\ pc[p] \in {"extract", "ex_mv"}
  /\ pc'[p] = "trying"

Persisted == {"trying", "extracting", "paused", "failed", "disabled"}

\* the last event of installer p whose status is always written, or completed
RECURSIVE LastPersisted(_)
LastPersisted(evs) ==
  IF evs = <<>> THEN ""
  ELSE IF evs[Len(evs)].status \in Persisted \cup {"completed"} THEN evs[Len(evs)].status
  ELSE LastPersisted(SubSeq(evs, 1, Len(evs) - 1))

ExecStagingFails ==
  cfg.execEnv \in {"noexec_notmp", "noexec_tmp_bad", "noexec_tmp_cperr", "noexec_tmp_lost"}

\* an Install of an executable tool emits completed only where execution is
\* supported in the storage folder or in the copy under the tmp-exec root
CompletedOnlyWhereExecutable ==
  \A p \in Installers :
    (cfg.isExecutable /\ "completed" \in Statuses(p)) => ~ExecStagingFails

\* when the exec staging fails the Install ends failed with an error and
\* nothing of the version is under the tmp-exec root
FailedStagingLeavesNothing ==
  \A p \in Installers :
    (cfg.isExecutable /\ ExecStagingFails /\ pc[p] = "release" /\ DoesToolExist) =>
      /\ LastStatus(p) = "failed"
      /\ loc[p].pend = "err"
      /\ tmpCopy = "none"

\* C26: for an executable tool, completed is emitted only if execution is
\* supported in the storage folder or in the tmp-exec copy; when the exec
\* staging fails Install returns an error with final status failed and
\* nothing of the version is left under the tmp-exec root.
C26_ExecStagingAllOrNothing ==
  CompletedOnlyWhereExecutable /\ FailedStagingLeavesNothing

\* C27: a sweep never deletes the version folder while an Install holds the
\* mutex of that folder, whatever the spelling of the writable root.
C27_SweepSkipsHeldFolder ==
  [][(fout = NoCall /\ fout' # NoCall /\ fout'.op = "sweep" /\ fout'.deleted) =>
       \A p \in Installers : ~InOperation(p)]_vars

\* the local temp file holds the whole artifact
LocalComplete == tmpFile = FileSize

\* the ranged GET that installer p is about to send is answered with 416
Gets416(p) ==
  /\ pc[p] = "get"
  /\ GetStatus(Urls[loc[p].i], loc[p].existing) = 416

\* C28: with a complete local temp file the attempt skips to extraction,
\* whether the HEAD size equals the local size or the ranged GET is answered
\* with 416; any other 416 is a failure of the mirror.
C28_CompleteFileSkipsDownload ==
  [][\A p \in Installers :
       /\ (pc[p] = "head" /\ LocalComplete /\ HeadSize(Urls[loc[p].i]) = FileSize
             /\ pc'[p] # pc[p]) =>
            (pc'[p] = "extract" /\ reqs'[p][Len(reqs'[p])].m = "HEAD")
       /\ (Gets416(p) /\ LocalComplete /\ pc'[p] # pc[p]) => pc'[p] = "extract"
       /\ (Gets416(p) /\ ~LocalComplete /\ pc'[p] # pc[p]) =>
            (pc'[p] = "trying" /\ loc'[p].failed = Append(loc[p].failed, loc[p].i))]_vars

\* no mirror of the list sends a Content-Length, on HEAD or on GET
NoContentLength == \A k \in 1..NUrls : Urls[k] = "chunked"

\* C29: with a mirror that sends no Content-Length the Install that runs to
\* its end completes and every event of the download has totalBytes = 0;
\* totalBytes is never negative in any event.
C29_UnknownSizeIsZeroTotal ==
  \A p \in Installers :
    /\ \A k \in 1..Len(events[p]) : events[p][k].total >= 0
    /\ NoContentLength =>
         /\ \A k \in 1..Len(events[p]) : events[p][k].total = 0
         /\ (pc[p] = "release" /\ LastStatus(p) # "paused") => LastStatus(p) = "completed"

\* size of the local temp file, 0 when there is none
LocalSize == IF tmpFile >= 0 THEN tmpFile ELSE 0

\* C30: when a paused Install returns, the downloadProcess of the sidecar has
\* status paused and a fileSize that is at least the size of the local temp
\* file and not negative.
C30_PausedSidecarCoversLocalFile ==
  \A p \in Installers :
    (pc[p] = "unlock" /\ LastStatus(p) = "paused") =>
      /\ sidecar # None
      /\ sidecar[1].status = "paused"
      /\ sidecar[1].fileSize >= LocalSize
      /\ sidecar[1].fileSize >= 0

\* C31: GetWebUIPort returns 0 whenever the web UI server is not running:
\* status other than running implies port 0; a running server has a non-zero
\* port; a Stop that returns nil leaves status stopped and port 0.
C31_PortZeroUnlessRunning ==
  /\ [](srvStatus # StatusRunning => srvPort = 0)
  /\ [](srvStatus = StatusRunning => srvPort # 0)
  /\ [][(srvCalls' # srvCalls /\ srvRet' = "nil" /\ srvLoop' # "spawned") =>
          (srvStatus' = StatusStopped /\ srvPort' = 0)]_vars

\* C32: the attempt follows the decision table on the size HEAD reported and
\* the size L of the local temp file: L = 0 gives a full GET without Range;
\* no size from HEAD and L > 0 gives a range GET bytes=L-; L equal to the
\* server size gives no GET; L above the server size deletes the local file
\* and gives a full GET without Range; L below it gives a range GET bytes=L-.
C32_DecisionTable ==
  fout.op = "attempt" =>
    /\ fin.existing = 0 => (fout.get /\ fout.range = 0 /\ ~fout.deleted)
    /\ (fin.known = 0 /\ fin.existing > 0) =>
         (fout.get /\ fout.range = fin.existing /\ ~fout.deleted)
    /\ (fin.known > 0 /\ fin.existing = fin.known) => (~fout.get /\ ~fout.deleted)
    /\ (fin.known > 0 /\ fin.existing > fin.known) =>
         (fout.deleted /\ fout.get /\ fout.range = 0)
    /\ (0 < fin.existing /\ fin.existing < fin.known) =>
         (fout.get /\ fout.range = fin.existing /\ ~fout.deleted)

\* a local file larger than the file of the server was deleted and fetched anew
C32_Witness ==
  /\ fout.op = "attempt"
  /\ fin.known > 0
  /\ fin.existing > fin.known
  /\ fout.deleted
  /\ fout.get
  /\ fout.range = 0

\* the attempts for which events 1..k-1 hold a trying event, in order
TriedBefore(evs, k) ==
  LET tried == SelectSeq(SubSeq(evs, 1, k - 1), LAMBDA e : e.status = "trying")
  IN [j \in 1..Len(tried) |-> tried[j].attempt]

\* C33: in every trying event failedUrls lists, in attempt order, the URLs
\* of the attempts made before it, each once, whatever made them fail, and
\* allUrls is the configured list; the final failed event lists every
\* attempted URL.
C33_FailedUrlsListEarlierAttempts ==
  \A p \in Installers :
    \A k \in 1..Len(events[p]) :
      (events[p][k].status = "trying" \/ LoopFailed(events[p][k])) =>
        /\ events[p][k].failed = TriedBefore(events[p], k)
        /\ events[p][k].all = NUrls

\* the step in which the download of installer p is stopped by Pause
StoppedByPause(p) == pc[p] = "read" /\ paused = 1 /\ pc'[p] # pc[p]

\* C34: when a download is stopped by Pause the URL being downloaded is not
\* added to failedUrls, no further mirror is tried in that Install, and the
\* paused event carries the size of the local temp file at that moment and
\* the last known total.
C34_PauseRecordsNoFailure ==
  /\ [](\A p \in Installers :
          \A k \in 1..Len(events[p]) :
            events[p][k].status = "paused" => k = Len(events[p]))
  /\ [][\A p \in Installers :
          StoppedByPause(p) =>
            /\ pc'[p] = "release"
            /\ loc'[p].failed = loc[p].failed
            /\ loc'[p].i = loc[p].i
            /\ Len(events'[p]) = Len(events[p]) + 1
            /\ LastStatus(p)' = "paused"
            /\ events'[p][Len(events'[p])].failed = loc[p].failed
            /\ events'[p][Len(events'[p])].downloaded = LocalSize
            /\ events'[p][Len(events'[p])].total = loc[p].total
            /\ UNCHANGED <<tmpFile, reqs>>]_vars
  /\ [][\A p \in Installers :
          (LastStatus(p) = "paused" /\ pc[p] # "idle") =>
            (reqs'[p] = reqs[p] /\ events'[p] = events[p])]_vars

\* the second mirror was paused with a part of the file on disk; the first
\* mirror is the only recorded failure
C34_Witness ==
  \E p \in Installers :
    /\ pc[p] = "unlock"
    /\ LastStatus(p) = "paused"
    /\ events[p][Len(events[p])].attempt = 2
    /\ events[p][Len(events[p])].failed = <<1>>
    /\ events[p][Len(events[p])].downloaded = tmpFile
    /\ tmpFile > 0
    /\ loc[p].pend = "nil"

\* an Install holds the mutex of the writable version folder
InstallHoldsMutex == \E p \in Installers : locks[KeyW] = p

\* the call of installer p returns in this step
InstallReturns(p) ==
  \/ pc[p] = "unlock" /\ pc'[p] = "idle"
  \/ pc[p] = "idle" /\ calls'[p] # calls[p] /\ pc'[p] = "idle"

\* C35 (as stated): the key is in the active-task registry exactly while an
\* Install of the key holds the per-folder mutex, and after an Install
\* returns by any path, busy included, the mutex is free and the key is
\* absent, so needsSSE is false once no install runs.
C35_ActiveExactlyWhileLocked ==
  /\ [](active <=> InstallHoldsMutex)
  /\ [][\A p \in Installers :
          InstallReturns(p) => (locks'[KeyW] = Free /\ ~active')]_vars
  /\ []((\A p \in Installers : pc[p] = "idle") => ~NeedsSSE)

\* C35 (amended): the key is in the registry only while an Install of the key
\* holds the mutex, and all the time from its markActive to its unmarkActive;
\* the Install that held the mutex returns with the mutex free and the key
\* absent, an Install that returns busy changes neither, and needsSSE is false
\* once no install runs.
C35_ActiveOnlyWhileLocked ==
  /\ [](active => \E p \in Installers :
                    locks[KeyW] = p /\ pc[p] \in {"marked", "trying", "head", "get", "read",
                                                 "extract", "ex_rm", "ex_mv", "post",
                                                 "release"})
  /\ [](\A p \in Installers : (locks[KeyW] = p /\ pc[p] \notin {"locked", "unlock"}) => active)
  /\ [][\A p \in Installers :
          (pc[p] = "unlock" /\ pc'[p] = "idle") => (locks'[KeyW] = Free /\ ~active')]_vars
  /\ [][\A p \in Installers :
          (pc[p] = "idle" /\ calls'[p] # calls[p] /\ pc'[p] = "idle") =>
            (ret'[p] = "busy" /\ locks' = locks /\ active' = active)]_vars
  /\ []((\A p \in Installers : pc[p] = "idle") => (~NeedsSSE /\ locks[KeyW] = Free))

\* an Install returned busy while the other Install holds the mutex with the
\* key registered
C35_Witness ==
  \E p, q \in Installers :
    /\ p # q
    /\ pc[p] = "idle"
    /\ ret[p] = "busy"
    /\ locks[KeyW] = q
    /\ pc[q] = "read"
    /\ active
    /\ NeedsSSE

\* C36: all calls of GetToolWithVersion for the key, concurrent first calls
\* included, return the same handle, so a Pause sent through one caller sets
\* the pause flag of the handle on which Install runs, and no caller is given
\* a handle other than the cached one.
C36_OneHandlePerKey ==
  /\ Cardinality(returned) <= 1
  /\ returned \subseteq {toolInstances}
  /\ \A c, d \in Callers :
       (getCall[c].pc = "done" /\ getCall[d].pc = "done") => getCall[c].tool = getCall[d].tool
  /\ (pauseFlags # {} /\ installing # {}) => pauseFlags = installing

\* three callers raced through the first call: two of them made a handle, the
\* handle of the first to store was returned to all, one installs on it and
\* another paused it
C36_Witness ==
  /\ created >= 2
  /\ \A c \in Callers : getCall[c].pc = "done"
  /\ \E c \in Callers : getCall[c].t # NoTool /\ getCall[c].t # getCall[c].tool
  /\ installing = {toolInstances}
  /\ pauseFlags = {toolInstances}

Terminal == {"completed", "failed", "paused"}

\* the positions of the terminal events of installer p
TerminalEvents(p) == {k \in 1..Len(events[p]) : events[p][k].status \in Terminal}

\* C37: every Install that acquired the mutex has, when it returns, emitted
\* exactly one terminal event (completed, failed or paused), as its last
\* event, and returns nil for completed and paused and an error for failed.
C37_OneTerminalEvent ==
  \A p \in Installers :
    pc[p] = "unlock" =>
      /\ TerminalEvents(p) = {Len(events[p])}
      /\ events[p] # <<>>
      /\ LastStatus(p) \in {"completed", "paused"} => loc[p].pend = "nil"
      /\ LastStatus(p) = "failed" => loc[p].pend = "err"

\* C38: a version is never reported installed while its download is
\* incomplete: the entry path under the writable root resolves only when the
\* whole artifact is in place, also for a raw file whose name is the entry
\* path and for an empty pathToEntry.
C38_InstalledOnlyWhenComplete == EntryW => ArtifactComplete

\* C39: Install or Uninstall of a version returns ErrToolBusy only when the
\* mutex is held by another operation on the same version, never because of
\* an operation on a different version.
C39_BusyOnlyFromSameKey ==
  \A k \in KeyProcs : keyOp[k].ret = "busy" => keyOp[k].blocker = keyOp[k].ver

\* C40: no progress event is sent on a closed client channel: a closed channel
\* is not in the client set, and a broadcast in its range holds the read lock
\* and has only channels of the set left to send to.
C40_NoSendOnClosedChannel ==
  /\ ~sentOnClosed
  /\ closed \cap connected = {}
  /\ \A b \in Broadcasters :
       bc[b].pc = "range" => b \in sseClientsMu.r /\ bc[b].todo \subseteq connected

\* one client has disconnected and its channel is closed, another has left its
\* loop and waits for the lock while a broadcast still has it to send to
C40_Witness ==
  \E b \in Broadcasters, c, d \in Clients :
    /\ c \in closed
    /\ sse[d] = "cleanup"
    /\ bc[b].pc = "range"
    /\ d \in bc[b].todo

====
